---- MODULE Spec2Model ----
(***************************************************************************)
(* Model of the Wrist Assistant companion service                          *)
(* (custom_components/wrist_assistant).                                    *)
(*                                                                         *)
(* Part 1: the delta-feed engine, api.py DeltaCoordinator: the event ring, *)
(*         the session table and the long-poll handler.                    *)
(* Part 2: the pairing service, api.py PairingCoordinator.                 *)
(*                                                                         *)
(* Everything runs on one cooperative event loop: the code between two     *)
(* awaits is one atomic action.  handle_poll has a single await, the wait  *)
(* on the generation event; async_create_pairing_code has a single await,  *)
(* the call of the AuthService.                                            *)
(***************************************************************************)
EXTENDS Integers, Sequences, FiniteSets, TLC

\* ------------------------------------------------------------------------
\* Bounds of the model.  The program's sizes and durations are scaled down;
\* the order MIN_TIMEOUT_SECONDS < MAX_TIMEOUT_SECONDS < SESSION_TTL is kept.
\* Durations are in clock ticks.
\* ------------------------------------------------------------------------
\* api.py:29 MAX_EVENTS_BUFFER = 5000 (the deque's maxlen)
MAX_EVENTS_BUFFER == 2
\* api.py:30 MAX_EVENTS_PER_RESPONSE = 250
MAX_EVENTS_PER_RESPONSE == 1
\* api.py:27 MIN_TIMEOUT_SECONDS = 5, in clock ticks
MIN_TIMEOUT_SECONDS == 1
\* api.py:28 MAX_TIMEOUT_SECONDS = 55, in clock ticks
MAX_TIMEOUT_SECONDS == 2
\* api.py:31 SESSION_TTL = timedelta(minutes=5), in clock ticks
SESSION_TTL == 3
\* state changes the event bus delivers in one run
MaxIngest == 3
\* polls dispatched in one run
MaxPolls == 3
\* api.py:32 PAIRING_CODE_TTL = timedelta(minutes=10), in clock ticks
PAIRING_CODE_TTL == 2
\* pairing codes generated in one run
MaxCodes == 2
MaxOpens == 2

Watches == {"w1", "w2"}
Hashes == {"h1", "h2"}
Entities == {"light.a", "light.b"}
Tasks == {1, 2}
\* the tasks that run async_create_pairing_code, and those that run
\* PairingRedeemView.post
CreateTasks == {1, 2}
RedeemTasks == {1, 2}
StreamTasks == {1, 2}

\* ------------------------------------------------------------------------
\* Decimal strings: a string is a sequence of characters.
\* ------------------------------------------------------------------------
Digits == <<"0", "1", "2", "3", "4", "5", "6", "7", "8", "9">>

DigitValue(c) == (CHOOSE i \in 1..10 : Digits[i] = c) - 1

IsDigit(c) == \E i \in 1..10 : Digits[i] = c

RECURSIVE NatToStr(_)
NatToStr(n) ==
    IF n < 10 THEN <<Digits[n + 1]>>
    ELSE NatToStr(n \div 10) \o <<Digits[(n % 10) + 1]>>

\* str(self._cursor): the cursor is never negative
IntToStr(n) == IF n < 0 THEN <<"-">> \o NatToStr(-n) ELSE NatToStr(n)

RECURSIVE DigitsToNat(_)
DigitsToNat(s) ==
    IF Len(s) = 0 THEN 0
    ELSE 10 * DigitsToNat(SubSeq(s, 1, Len(s) - 1)) + DigitValue(s[Len(s)])

AllDigits(s) == Len(s) > 0 /\ \A i \in 1..Len(s) : IsDigit(s[i])

\* int(since): an optional sign, then decimal digits; anything else raises
\* ValueError.  ok = FALSE stands for the ValueError.
StrToInt(s) ==
    IF AllDigits(s) THEN [ok |-> TRUE, value |-> DigitsToNat(s)]
    ELSE IF Len(s) > 1 /\ s[1] = "-" /\ AllDigits(Tail(s))
         THEN [ok |-> TRUE, value |-> 0 - DigitsToNat(Tail(s))]
    ELSE IF Len(s) > 1 /\ s[1] = "+" /\ AllDigits(Tail(s))
         THEN [ok |-> TRUE, value |-> DigitsToNat(Tail(s))]
    ELSE [ok |-> FALSE, value |-> 0]

Max(a, b) == IF a >= b THEN a ELSE b
Min(a, b) == IF a <= b THEN a ELSE b

\* "since" of a request body: absent (None), or a string
NoSince == <<"None">>
SinceInputs ==
    {NoSince, <<>>, <<"x">>, <<"-", "1">>}
        \cup {IntToStr(n) : n \in 0..(MaxIngest + 1)}

\* "entities" of a request body: absent, or a list.  NotAString stands for a
\* list entry that is not a string (a number, null, an object).
NoEntities == <<"None">>
NotAString == "<int>"
IsStr(x) == x # NotAString
EntityLists ==
    {<<>>, <<"light.a", "light.a">>, <<NotAString, "light.b">>,
     <<"", "light.a", "light.b">>}

\* "timeout" of a request body: below and above the clamp
TimeoutInputs == {MIN_TIMEOUT_SECONDS - 1, MAX_TIMEOUT_SECONDS + 1}

VARIABLES
    cursor,            \* DeltaCoordinator._cursor
    events,            \* DeltaCoordinator._events, oldest first
    generation,        \* DeltaCoordinator._generation
    generation_event,  \* DeltaCoordinator._generation_event: the flag is set
    sessions,          \* DeltaCoordinator._sessions: watch_id -> WatchSession
    polls,             \* task -> the handle_poll coroutine, where it stands
    last,              \* what the step just taken answered
    nIngest,           \* history: state changes logged so far
    nPolls,            \* history: polls dispatched so far
    clientSince,       \* history: watch_id -> the since a client that echoes next_cursor sends next
    delivered,         \* history: watch_id -> cursors of the delta events delivered
    resync_due,        \* history: the clients a forced resync dropped, not yet answered with a refresh
    pairing_sessions,  \* PairingCoordinator._sessions: code -> PairingSession
    active_code,       \* PairingCoordinator._active_code
    refresh_tokens,    \* hass.auth: the ids of the refresh tokens that exist
    creates,           \* task -> the async_create_pairing_code coroutine
    redeem_requests,   \* task -> the code of the PairingRedeemView.post coroutine
    nCodes,            \* history: pairing codes generated so far
    redeemed,          \* history: code -> successful redeems, counted up to 2
    was_active,        \* history: the codes that have been the active code
    pairLast,          \* what the pairing step just taken did
    auth_tokens,       \* hass.auth: refresh token id -> its attributes, as the startup cleanup reads them
    cleanup_task,      \* the _cleanup_orphaned_pairing_tokens coroutine
    stream_sessions,   \* CameraStreamCoordinator._sessions: (watch_id, entity_id) -> session object
    session_objs,      \* the StreamSession objects: object -> its fields
    streams,           \* task -> the CameraStreamView.get coroutine, where it stands
    nOpens,            \* history: stream requests so far
    camLast,           \* what the camera step just taken did
    tokens,            \* NotificationTokenStore._tokens, in insertion order
    save_pending,      \* NotificationTokenStore._store: a delayed save is scheduled
    on_disk,           \* NotificationTokenStore._store: what is on disk
    sends,             \* task -> the _handle_send_notification coroutine
    noteLast           \* what the notification step just taken did

\* Time is kept relative to the present: a session holds idle = now - last_seen
\* and a suspended poll holds remaining = deadline - loop.time(); a clock tick
\* moves both.  The code reads the clock only in these two differences.
coreVars == <<cursor, events, generation, generation_event, sessions,
              polls, last, nIngest, nPolls>>
echoVars == <<clientSince, delivered, resync_due>>

pairVars == <<pairing_sessions, active_code, refresh_tokens, creates,
              redeem_requests, nCodes, redeemed, was_active, pairLast>>
deltaVars == <<coreVars, echoVars>>

cleanVars == <<auth_tokens, cleanup_task>>
camVars == <<stream_sessions, session_objs, streams, nOpens, camLast>>
noteVars == <<tokens, save_pending, on_disk, sends, noteLast>>
restVars == <<cleanVars, camVars, noteVars>>

vars == <<coreVars, echoVars, pairVars, restVars>>

\* ------------------------------------------------------------------------
\* Part 1: DeltaCoordinator
\* ------------------------------------------------------------------------

\* WatchSession(watch_id=watch_id): the dataclass defaults.  first_seen and
\* last_poll_interval only feed the diagnostic sensors and are left out.
WatchSession ==
    [config_hash |-> "", entities |-> {}, entities_synced |-> FALSE,
     idle |-> 0]

\* DeltaEvent(cursor, entity_id, payload); the payload is the state rendered
\* at ingest time.
DeltaEvent(c, e, v) == [cursor |-> c, entity_id |-> e, state |-> v]

\* A variant of the deque without maxlen: nothing is evicted
RingAppendUnbounded(q, x) == q \o <<x>>

\* A variant of the deque that, when full, gives up its newest event
RingAppendOverNewest(q, x) ==
    IF Len(q) >= MAX_EVENTS_BUFFER
    THEN SubSeq(q, 1, Len(q) - 1) \o <<x>> ELSE q \o <<x>>

\* deque(maxlen=MAX_EVENTS_BUFFER).append
RingAppend(q, x) ==
    IF Len(q) >= MAX_EVENTS_BUFFER THEN Tail(q) \o <<x>> ELSE q \o <<x>>

\* A variant of _collect_events that skips only the events before since_cursor
\* (event.cursor < since_cursor at line 482)
RECURSIVE collect_from_since(_, _, _, _, _, _)
collect_from_since(evs, i, since_cursor, entities, limit, matched) ==
    IF i > Len(evs) THEN matched
    ELSE IF evs[i].cursor < since_cursor
         THEN collect_from_since(evs, i + 1, since_cursor, entities, limit, matched)
    ELSE IF evs[i].entity_id \notin entities
         THEN collect_from_since(evs, i + 1, since_cursor, entities, limit, matched)
    ELSE IF Len(matched) + 1 >= limit THEN Append(matched, evs[i])
    ELSE collect_from_since(evs, i + 1, since_cursor, entities, limit,
                            Append(matched, evs[i]))

\* A variant of _collect_events without the subscription filter
RECURSIVE collect_unfiltered(_, _, _, _, _, _)
collect_unfiltered(evs, i, since_cursor, entities, limit, matched) ==
    IF i > Len(evs) THEN matched
    ELSE IF evs[i].cursor <= since_cursor
         THEN collect_unfiltered(evs, i + 1, since_cursor, entities, limit, matched)
    ELSE IF Len(matched) + 1 >= limit THEN Append(matched, evs[i])
    ELSE collect_unfiltered(evs, i + 1, since_cursor, entities, limit,
                            Append(matched, evs[i]))

\* _collect_events: the loop over self._events from index i on
RECURSIVE collect_loop(_, _, _, _, _, _)
collect_loop(evs, i, since_cursor, entities, limit, matched) ==
    IF i > Len(evs) THEN matched
    ELSE IF evs[i].cursor <= since_cursor
         THEN collect_loop(evs, i + 1, since_cursor, entities, limit, matched)
    ELSE IF evs[i].entity_id \notin entities
         THEN collect_loop(evs, i + 1, since_cursor, entities, limit, matched)
    ELSE IF Len(matched) + 1 >= limit THEN Append(matched, evs[i])
    ELSE collect_loop(evs, i + 1, since_cursor, entities, limit,
                      Append(matched, evs[i]))

\* A variant of _collect_events that returns the newest matches when more
\* than limit events match
collect_events_newest(evs, since_cursor, entities, limit) ==
    LET all == SelectSeq(evs, LAMBDA ev : /\ ev.cursor > since_cursor
                                          /\ ev.entity_id \in entities)
        matched == SubSeq(all, Max(1, Len(all) - limit + 1), Len(all))
    IN  IF matched # <<>>
        THEN [events |-> matched, next_cursor |-> matched[Len(matched)].cursor]
        ELSE [events |-> <<>>, next_cursor |-> since_cursor]

\* _collect_events
collect_events(evs, since_cursor, entities, limit) ==
    LET matched == collect_loop(evs, 1, since_cursor, entities, limit, <<>>)
    IN  IF matched # <<>>
        THEN [events |-> matched, next_cursor |-> matched[Len(matched)].cursor]
        ELSE [events |-> <<>>, next_cursor |-> since_cursor]

\* A variant of _is_stale_cursor without the ring-eviction test
is_stale_cursor_ahead_only(since_cursor) == since_cursor > cursor

is_stale_cursor(since_cursor) ==
    IF since_cursor > cursor THEN TRUE
    ELSE IF events = <<>> THEN FALSE
    ELSE since_cursor < events[1].cursor - 1

\* A variant of _parse_since that keeps a negative cursor as it is
parse_since_no_clamp(since, default_cursor) ==
    IF since = NoSince \/ since = <<>>
    THEN [cursor |-> default_cursor, invalid |-> FALSE]
    ELSE LET r == StrToInt(since)
         IN  IF ~r.ok THEN [cursor |-> 0, invalid |-> TRUE]
             ELSE [cursor |-> r.value, invalid |-> FALSE]

\* _parse_since
parse_since(since, default_cursor) ==
    IF since = NoSince \/ since = <<>>
    THEN [cursor |-> default_cursor, invalid |-> FALSE]
    ELSE LET r == StrToInt(since)
         IN  IF ~r.ok THEN [cursor |-> 0, invalid |-> TRUE]
             ELSE [cursor |-> Max(r.value, 0), invalid |-> FALSE]

\* hass.states, the hub's state machine, as a poll finds it: entity_id ->
\* state, for the entities that exist.  The hub owns it; a poll reads it at
\* one instant, and the model draws what it reads.
Stores ==
    {<<>>} \cup UNION {[E -> {"on", "off"}] : E \in SUBSET Entities \ {{}}}

\* A variant of _snapshot_current_state that answers a row for an entity
\* hass.states does not know
RECURSIVE snapshot_with_missing(_, _)
snapshot_with_missing(states, entities) ==
    IF entities = {} THEN <<>>
    ELSE LET entity_id == CHOOSE e \in entities : TRUE
             rest == snapshot_with_missing(states, entities \ {entity_id})
         IN  IF entity_id \notin DOMAIN states
             THEN <<[cursor |-> 0, entity_id |-> entity_id,
                     state |-> "unavailable"]>> \o rest
             ELSE <<[cursor |-> 0, entity_id |-> entity_id,
                     state |-> states[entity_id]]>> \o rest

\* _snapshot_current_state: one row per entity of the set that hass.states
\* knows; the set is walked in some order.  A row has no cursor (0).
RECURSIVE snapshot_current_state(_, _)
snapshot_current_state(states, entities) ==
    IF entities = {} THEN <<>>
    ELSE LET entity_id == CHOOSE e \in entities : TRUE
             rest == snapshot_current_state(states, entities \ {entity_id})
         IN  IF entity_id \notin DOMAIN states THEN rest
             ELSE <<DeltaEvent(0, entity_id, states[entity_id])>> \o rest

\* _prune_sessions: the sessions that stay.  last_seen < now - SESSION_TTL
\* reads idle > SESSION_TTL.
prune_sessions(table) ==
    [w \in {x \in DOMAIN table : ~(table[x].idle > SESSION_TTL)}
        |-> table[w]]

\* WatchUpdatesView.post: the entities list with the non-strings and the
\* empty strings dropped
RECURSIVE normalized_entities(_)
normalized_entities(l) ==
    IF l = <<>> THEN <<>>
    ELSE IF IsStr(Head(l)) /\ Head(l) # ""
         THEN <<Head(l)>> \o normalized_entities(Tail(l))
    ELSE normalized_entities(Tail(l))

\* A variant of the timeout clamp without the upper limit
clamp_timeout_lower_only(timeout) ==
    Max(MIN_TIMEOUT_SECONDS, timeout)

\* WatchUpdatesView.post: max(MIN_TIMEOUT_SECONDS, min(timeout, MAX_TIMEOUT_SECONDS))
clamp_timeout(timeout) ==
    Max(MIN_TIMEOUT_SECONDS, Min(timeout, MAX_TIMEOUT_SECONDS))

\* A variant of lines 269-277 that stores a new config_hash and leaves the
\* subscription as it is
update_session_keeps_entities(session, config_hash, entities) ==
    IF entities # NoEntities
    THEN [session EXCEPT
            !.entities = {entities[i] : i \in {j \in 1..Len(entities) : IsStr(entities[j])}},
            !.config_hash = config_hash,
            !.entities_synced = TRUE]
    ELSE [session EXCEPT !.config_hash = config_hash]

\* A variant of lines 273-277 that marks the session unsynced and leaves the
\* subscription as it is
update_session_no_clear(session, config_hash, entities) ==
    IF entities # NoEntities
    THEN [session EXCEPT
            !.entities = {entities[i] : i \in {j \in 1..Len(entities) : IsStr(entities[j])}},
            !.config_hash = config_hash,
            !.entities_synced = TRUE]
    ELSE IF session.config_hash # config_hash
    THEN [session EXCEPT
            !.config_hash = config_hash,
            !.entities_synced = FALSE]
    ELSE session

\* handle_poll, lines 269-277: what the request makes of the session
update_session(session, config_hash, entities) ==
    IF entities # NoEntities
    THEN [session EXCEPT
            !.entities = {entities[i] : i \in {j \in 1..Len(entities) : IsStr(entities[j])}},
            !.config_hash = config_hash,
            !.entities_synced = TRUE]
    ELSE IF session.config_hash # config_hash
    THEN [session EXCEPT
            !.config_hash = config_hash,
            !.entities = {},
            !.entities_synced = FALSE]
    ELSE session

\* A suspended handle_poll coroutine.  session is <<>> while the WatchSession
\* it holds is the one in the table under watch_id, and <<s>> once that object
\* was dropped from the table: nothing writes to a dropped object any more,
\* so the copy s is what the coroutine reads.  The coroutine reads nothing
\* but session.entities, and the copy keeps nothing else.
IdlePoll ==
    [pc |-> "idle", watch_id |-> "", session |-> <<>>, since_cursor |-> 0,
     remaining |-> 0]

Suspended(p) == polls[p].pc \in {"waiting", "woken"}

SessionOf(p) ==
    IF polls[p].session = <<>> THEN sessions[polls[p].watch_id]
    ELSE [WatchSession EXCEPT !.entities = polls[p].session[1]]

\* the coroutines that held table[w] for a w in gone now hold a dropped object
Orphan(ps, table, gone) ==
    [p \in Tasks |->
        IF ps[p].pc # "idle" /\ ps[p].session = <<>> /\ ps[p].watch_id \in gone
        THEN [ps[p] EXCEPT !.session = <<table[ps[p].watch_id].entities>>]
        ELSE ps[p]]

\* What a step answered.  kind: "dispatch" (handle_poll up to its first
\* return or await), "resume" (the wait loop after a wake-up or a timeout),
\* "cancel"; status 0: no answer, the coroutine is suspended or cancelled.
\* pruned: the watch_ids whose sessions _prune_sessions dropped in the step;
\* entities: the entities argument handle_poll was called with.
NoResponse ==
    [kind |-> "none", task |-> 0, watch_id |-> "", status |-> 0, path |-> "",
     body |-> FALSE, events |-> <<>>, next_cursor |-> <<>>,
     need_entities |-> FALSE, resync_required |-> FALSE,
     include_details |-> FALSE, since |-> <<>>, has_entities |-> FALSE,
     config_hash |-> "", force_delta |-> FALSE, states |-> <<>>,
     pruned |-> {}, entities |-> <<"None">>]

\* _response_payload: the body of a 200 or a 410
response_payload(evs, next_cursor, need_entities, resync_required, include_details) ==
    [body |-> TRUE, events |-> evs, next_cursor |-> next_cursor,
     need_entities |-> need_entities, resync_required |-> resync_required,
     include_details |-> include_details]

Answer(status, path, payload) ==
    [NoResponse EXCEPT
        !.status = status, !.path = path, !.body = payload.body,
        !.events = payload.events, !.next_cursor = payload.next_cursor,
        !.need_entities = payload.need_entities,
        !.resync_required = payload.resync_required,
        !.include_details = payload.include_details]

\* return 204, None
NoContent(path) == [NoResponse EXCEPT !.status = 204, !.path = path]

\* A variant of the wait loop that answers 204 on a wake-up that brought
\* nothing for the subscription
after_wake_gives_up(since_cursor, entities, remaining) ==
    LET c == collect_events(events, since_cursor, entities, MAX_EVENTS_PER_RESPONSE)
    IN  IF c.events # <<>>
        THEN [out |-> "return",
              answer |-> Answer(200, "wake",
                  response_payload(c.events, IntToStr(c.next_cursor), FALSE, FALSE, FALSE)),
              flag |-> FALSE, since_cursor |-> since_cursor]
        ELSE [out |-> "return", answer |-> NoContent("deadline"),
              flag |-> FALSE, since_cursor |-> since_cursor]

\* The wait loop, lines 365-415, run from the top of the loop (wait_loop) or
\* from the line after the await (after_wake) until it returns or suspends.
\* flag is the generation event's flag.  wait_for(event.wait()) returns at
\* once when the flag is set, and suspends otherwise.
\* observed_generation is the local of that name: it is assigned before
\* every suspension and after every wake-up, so the coroutine need not keep it.
RECURSIVE wait_loop(_, _, _, _, _)
RECURSIVE after_wake(_, _, _)
wait_loop(since_cursor, observed_generation, entities, remaining, flag) ==
    IF remaining <= 0
    THEN [out |-> "return", answer |-> NoContent("deadline"), flag |-> flag,
          since_cursor |-> since_cursor]
    ELSE IF generation # observed_generation
    THEN LET c == collect_events(events, since_cursor, entities, MAX_EVENTS_PER_RESPONSE)
         IN  IF c.events # <<>>
             THEN [out |-> "return",
                   answer |-> Answer(200, "wake",
                       response_payload(c.events, IntToStr(c.next_cursor), FALSE, FALSE, FALSE)),
                   flag |-> flag, since_cursor |-> since_cursor]
             ELSE wait_loop(c.next_cursor, generation, entities, remaining, flag)
    ELSE IF flag THEN after_wake(since_cursor, entities, remaining)
    ELSE [out |-> "suspend", answer |-> NoResponse, flag |-> flag,
          since_cursor |-> since_cursor]

after_wake(since_cursor, entities, remaining) ==
    LET c == collect_events(events, since_cursor, entities, MAX_EVENTS_PER_RESPONSE)
    IN  IF c.events # <<>>
        THEN [out |-> "return",
              answer |-> Answer(200, "wake",
                  response_payload(c.events, IntToStr(c.next_cursor), FALSE, FALSE, FALSE)),
              flag |-> FALSE, since_cursor |-> since_cursor]
        ELSE wait_loop(c.next_cursor, generation, entities, remaining, FALSE)

\* A variant of Event.set() that wakes one waiter, as a semaphore would
event_set_one(ps) ==
    [p \in Tasks |->
        IF ps[p].pc = "waiting" /\ \A q \in Tasks : q < p => ps[q].pc # "waiting"
        THEN [ps[p] EXCEPT !.pc = "woken"] ELSE ps[p]]

\* asyncio.Event.set(): the flag is set and the future of every coroutine
\* waiting in Event.wait() gets its result
event_set(ps) ==
    [p \in Tasks |->
        IF ps[p].pc = "waiting" THEN [ps[p] EXCEPT !.pc = "woken"] ELSE ps[p]]

Returned(answer) ==
    [out |-> "return", flag |-> generation_event, answer |-> answer,
     since_cursor |-> 0, remaining |-> 0]

\* A variant of handle_poll that looks at since before it looks at
\* entities_synced (lines 294-304 before lines 281-290)
handle_poll_snapshot_first(session, since, timeout, force_delta, states) ==
    IF since = NoSince \/ since = <<>>
    THEN Returned(Answer(200, "snapshot",
            response_payload(snapshot_current_state(states, session.entities),
                             IntToStr(cursor), FALSE, FALSE, FALSE)))
    ELSE IF ~session.entities_synced
    THEN Returned(Answer(200, "unsynced",
            response_payload(<<>>, IntToStr(cursor), TRUE, FALSE, FALSE)))
    ELSE
    LET parsed == parse_since(since, cursor)
        since_cursor == parsed.cursor
        c == collect_events(events, since_cursor, session.entities,
                            MAX_EVENTS_PER_RESPONSE)
    IN  IF parsed.invalid
        THEN Returned(Answer(410, "invalid",
                response_payload(<<>>, IntToStr(cursor), FALSE, TRUE, FALSE)))
        ELSE IF is_stale_cursor(since_cursor)
        THEN Returned(Answer(410, "stale",
                response_payload(<<>>, IntToStr(cursor), FALSE, TRUE, FALSE)))
        ELSE IF c.events # <<>>
        THEN Returned(Answer(200, "immediate",
                response_payload(c.events, IntToStr(c.next_cursor),
                                 FALSE, FALSE, force_delta)))
        ELSE IF force_delta
        THEN Returned(Answer(200, "force",
                response_payload(<<>>, IntToStr(c.next_cursor),
                                 FALSE, FALSE, TRUE)))
        ELSE LET w == wait_loop(since_cursor, generation, session.entities,
                                timeout, generation_event)
             IN  [out |-> w.out, flag |-> w.flag, answer |-> w.answer,
                  since_cursor |-> w.since_cursor, remaining |-> timeout]

\* A variant of handle_poll without the force_delta return (lines 349-360):
\* a poll that finds no event waits
handle_poll_ignores_force(session, since, timeout, force_delta, states) ==
    IF ~session.entities_synced
    THEN Returned(Answer(200, "unsynced",
            response_payload(<<>>, IntToStr(cursor), TRUE, FALSE, FALSE)))
    ELSE IF since = NoSince \/ since = <<>>
    THEN Returned(Answer(200, "snapshot",
            response_payload(snapshot_current_state(states, session.entities),
                             IntToStr(cursor), FALSE, FALSE, FALSE)))
    ELSE
    LET parsed == parse_since(since, cursor)
        since_cursor == parsed.cursor
        c == collect_events(events, since_cursor, session.entities,
                            MAX_EVENTS_PER_RESPONSE)
    IN  IF parsed.invalid
        THEN Returned(Answer(410, "invalid",
                response_payload(<<>>, IntToStr(cursor), FALSE, TRUE, FALSE)))
        ELSE IF is_stale_cursor(since_cursor)
        THEN Returned(Answer(410, "stale",
                response_payload(<<>>, IntToStr(cursor), FALSE, TRUE, FALSE)))
        ELSE IF c.events # <<>>
        THEN Returned(Answer(200, "immediate",
                response_payload(c.events, IntToStr(c.next_cursor),
                                 FALSE, FALSE, force_delta)))
        ELSE LET w == wait_loop(since_cursor, generation, session.entities,
                                timeout, generation_event)
             IN  [out |-> w.out, flag |-> w.flag, answer |-> w.answer,
                  since_cursor |-> w.since_cursor, remaining |-> timeout]

\* handle_poll from line 281 to its first return or await: the request is
\* answered or the wait loop is entered
handle_poll(session, since, timeout, force_delta, states) ==
    IF ~session.entities_synced
    THEN Returned(Answer(200, "unsynced",
            response_payload(<<>>, IntToStr(cursor), TRUE, FALSE, FALSE)))
    ELSE IF since = NoSince \/ since = <<>>
    THEN Returned(Answer(200, "snapshot",
            response_payload(snapshot_current_state(states, session.entities),
                             IntToStr(cursor), FALSE, FALSE, FALSE)))
    ELSE
    LET parsed == parse_since(since, cursor)
        since_cursor == parsed.cursor
        c == collect_events(events, since_cursor, session.entities,
                            MAX_EVENTS_PER_RESPONSE)
    IN  IF parsed.invalid
        THEN Returned(Answer(410, "invalid",
                response_payload(<<>>, IntToStr(cursor), FALSE, TRUE, FALSE)))
        ELSE IF is_stale_cursor(since_cursor)
        THEN Returned(Answer(410, "stale",
                response_payload(<<>>, IntToStr(cursor), FALSE, TRUE, FALSE)))
        ELSE IF c.events # <<>>
        THEN Returned(Answer(200, "immediate",
                response_payload(c.events, IntToStr(c.next_cursor),
                                 FALSE, FALSE, force_delta)))
        ELSE IF force_delta
        THEN Returned(Answer(200, "force",
                response_payload(<<>>, IntToStr(c.next_cursor),
                                 FALSE, FALSE, TRUE)))
        ELSE LET w == wait_loop(since_cursor, generation, session.entities,
                                timeout, generation_event)
             IN  [out |-> w.out, flag |-> w.flag, answer |-> w.answer,
                  since_cursor |-> w.since_cursor, remaining |-> timeout]

\* History of a client that passes the next_cursor of its previous answer as
\* since, and polls again only after the answer: AnySince before its first
\* poll.
AnySince == <<"Any">>

Cursors(evs) == [i \in 1..Len(evs) |-> evs[i].cursor]

\* ------------------------------------------------------------------------
\* Part 2: PairingCoordinator
\* ------------------------------------------------------------------------

\* self._active_code = None
NoCode == 0

\* secrets.token_urlsafe(24): 192 random bits, a code no earlier call returned.
\* The codes are numbered in the order they are generated.
Codes == 1..MaxCodes

\* auth.async_create_refresh_token: the id of the token created for a code
TokenFor(code) == 100 + code

\* PairingSession(code, refresh_token_id, expires_at): ttl = expires_at - now.
\* The URLs and lifespan_days are carried to the answer and are left out.
PairingSession(code) ==
    [refresh_token_id |-> TokenFor(code), ttl |-> PAIRING_CODE_TTL]

\* dict.pop(key, None) and dict[key] = value
Drop(table, keys) == [k \in DOMAIN table \ keys |-> table[k]]
Put(table, key, value) ==
    [k \in DOMAIN table \cup {key} |-> IF k = key THEN value ELSE table[k]]

\* What the coordinator's methods read and write: its two fields and the
\* refresh tokens of hass.auth
PairingState ==
    [sessions |-> pairing_sessions, active_code |-> active_code,
     tokens |-> refresh_tokens]

\* A variant of _revoke_code that finds the refresh token by the code instead
\* of by the session it popped: it removes the token of a code without session
revoke_code_by_code(st, code) ==
    [sessions |-> Drop(st.sessions, {code}),
     tokens |-> st.tokens \ {TokenFor(code)},
     active_code |-> IF st.active_code = code THEN NoCode
                     ELSE st.active_code]

\* _revoke_code
revoke_code(st, code) ==
    IF code \notin DOMAIN st.sessions THEN st
    ELSE [sessions |-> Drop(st.sessions, {code}),
          tokens |-> st.tokens \ {st.sessions[code].refresh_token_id},
          active_code |-> IF st.active_code = code THEN NoCode
                          ELSE st.active_code]

\* for code in codes: self._revoke_code(code)
RECURSIVE revoke_each(_, _)
revoke_each(st, codes) ==
    IF codes = {} THEN st
    ELSE LET code == CHOOSE c \in codes : TRUE
         IN  revoke_each(revoke_code(st, code), codes \ {code})

\* A variant of _prune_expired that compares expires_at < now: a session is
\* kept in the instant of its expiry (never, in whole ticks)
prune_expired_never(st) ==
    IF st.active_code # NoCode /\ st.active_code \notin DOMAIN st.sessions
    THEN [st EXCEPT !.active_code = NoCode]
    ELSE st

\* _prune_expired: expires_at <= now reads ttl <= 0
prune_expired(st) ==
    LET expired_codes == {c \in DOMAIN st.sessions : st.sessions[c].ttl <= 0}
        r == revoke_each(st, expired_codes)
    IN  IF r.active_code # NoCode /\ r.active_code \notin DOMAIN r.sessions
        THEN [r EXCEPT !.active_code = NoCode]
        ELSE r

\* async_create_pairing_code, lines 821-831: after the AuthService returned
\* the refresh token
store_pairing_session(st, code) ==
    [st EXCEPT !.tokens = @ \cup {TokenFor(code)},
               !.sessions = Put(@, code, PairingSession(code))]

\* async_refresh_active_pairing, lines 871-875: after async_create_pairing_code
\* returned the payload of code
replace_active_code(st, previous_active_code, code) ==
    LET act == [st EXCEPT !.active_code = code]
    IN  IF previous_active_code # NoCode /\ previous_active_code # code
        THEN revoke_code(act, previous_active_code)
        ELSE act

\* A variant of async_redeem_pairing_code that leaves the redeemed session in
\* the table (no pop at line 920)
redeem_keeps_session(st, code) ==
    LET p == prune_expired(st)
    IN  IF code \notin DOMAIN p.sessions THEN [st |-> p, ok |-> FALSE]
        ELSE IF p.sessions[code].refresh_token_id \notin p.tokens
        THEN [st |-> [p EXCEPT !.sessions = Drop(@, {code})], ok |-> FALSE]
        ELSE [st |-> p, ok |-> TRUE]

\* async_redeem_pairing_code: ok = FALSE stands for return None
redeem_pairing_code(st, code) ==
    LET p == prune_expired(st)
    IN  IF code \notin DOMAIN p.sessions THEN [st |-> p, ok |-> FALSE]
        ELSE IF p.sessions[code].refresh_token_id \notin p.tokens
        THEN [st |-> [p EXCEPT !.sessions = Drop(@, {code})], ok |-> FALSE]
        ELSE [st |-> [p EXCEPT !.sessions = Drop(@, {code})], ok |-> TRUE]

\* A variant of async_shutdown that clears the table and revokes nothing
pairing_shutdown_clears_only(st) ==
    [st EXCEPT !.sessions = <<>>, !.active_code = NoCode]

\* PairingCoordinator.async_shutdown
pairing_shutdown(st) ==
    LET r == revoke_each(st, DOMAIN st.sessions)
    IN  [r EXCEPT !.sessions = <<>>, !.active_code = NoCode]

IdleCreate ==
    [pc |-> "idle", refresh |-> FALSE, code |-> NoCode,
     previous_active_code |-> NoCode]

\* What a pairing step did.  kind: "create" (async_create_pairing_code up to
\* its await), "redeem", "shutdown", "none" for the other steps; revoked: the
\* refresh tokens the step removed from hass.auth
NoRedeem == [kind |-> "none", code |-> NoCode, ok |-> FALSE, revoked |-> {}]

\* ------------------------------------------------------------------------
\* Camera streams (camera_stream.py): values and operators
\* ------------------------------------------------------------------------

MIN_WIDTH == 50
MAX_WIDTH == 2000
MIN_QUALITY == 10
MAX_QUALITY == 95
DEFAULT_WIDTH == 400
DEFAULT_QUALITY == 75

\* fps is a float: it is kept in tenths of a frame per second
MIN_FPS == 5
MAX_FPS == 100
DEFAULT_FPS == 20

\* consecutive_source_errors >= 5
SOURCE_ERROR_LIMIT == 5

\* A variant of _clamp that bounds the value from above only
clamp_upper_only(value, lo, hi) == Min(hi, value)

\* _clamp
clamp(value, lo, hi) == Max(lo, Min(hi, value))

\* An entity id is <<domain, name>>: "camera.a" is <<"camera", "a">>.
\* NoSource is None, UNSET the sentinel _UNSET, NotAnId a JSON value that is
\* not a string.
NoSource == <<"None">>
UNSET == <<"_UNSET">>
NotAnId == <<"<int>">>

\* isinstance(sid, str) and sid.startswith("camera.")
is_camera_id(sid) == Len(sid) = 2 /\ sid[1] = "camera"

\* hass.states: the entities that exist
CameraStates == {<<"camera", "a">>, <<"camera", "b">>, <<"camera", "c">>,
                 <<"light", "a">>}

\* ViewportState: x, y, w, h are floats in [0, 1], kept in hundredths
ViewportState(x, y, w, h) == [x |-> x, y |-> y, w |-> w, h |-> h]
DefaultViewport == ViewportState(0, 0, 100, 100)

\* StreamSession
StreamSession(viewport, width, quality, fps) ==
    [viewport |-> viewport, width |-> width, quality |-> quality,
     fps |-> fps, source_entity_id |-> NoSource]

\* A query string or a JSON object: has is the set of its keys; the value of
\* a key it does not have is not read.  An optional argument is <<>> (None)
\* or <<value>>.
Get(payload, key, default) ==
    IF key \in payload.has THEN payload[key] ELSE default

\* the viewport of a request that has one of x, y, w, h: the others take
\* their defaults
viewport_of(payload) ==
    ViewportState(clamp(Get(payload, "x", 0), 0, 100),
                  clamp(Get(payload, "y", 0), 0, 100),
                  clamp(Get(payload, "w", 100), 1, 100),
                  clamp(Get(payload, "h", 100), 1, 100))

\* CameraStreamCoordinator.get_or_create_session: the table maps a key to a
\* session object, objs maps the objects to their fields; id is the object
\* a new session gets
get_or_create_session(table, objs, id, key, width, quality, fps, viewport) ==
    IF key \notin DOMAIN table
    THEN [table |-> Put(table, key, id),
          objs |-> Put(objs, id, StreamSession(viewport, width, quality, fps)),
          session |-> id]
    ELSE [table |-> table,
          objs |-> [objs EXCEPT ![table[key]].width = width,
                                ![table[key]].quality = quality,
                                ![table[key]].fps = fps],
          session |-> table[key]]

\* A variant of update_session that takes an absent width as the default
update_stream_session_default_width(table, objs, key, viewport, width, source_entity_id, quality, fps) ==
    IF key \notin DOMAIN table
    THEN [ok |-> FALSE, objs |-> objs]
    ELSE LET s == objs[table[key]]
         IN  [ok |-> TRUE,
              objs |-> [objs EXCEPT ![table[key]] =
                [viewport |-> IF viewport # <<>> THEN viewport[1]
                              ELSE s.viewport,
                 width |-> IF width # <<>>
                           THEN clamp(width[1], MIN_WIDTH, MAX_WIDTH)
                           ELSE DEFAULT_WIDTH,
                 source_entity_id |-> IF source_entity_id # UNSET
                                      THEN source_entity_id
                                      ELSE s.source_entity_id,
                 quality |-> IF quality # <<>>
                             THEN clamp(quality[1], MIN_QUALITY, MAX_QUALITY)
                             ELSE s.quality,
                 fps |-> IF fps # <<>> THEN clamp(fps[1], MIN_FPS, MAX_FPS)
                         ELSE s.fps]]]

\* CameraStreamCoordinator.update_session
update_stream_session(table, objs, key, viewport, width, source_entity_id, quality, fps) ==
    IF key \notin DOMAIN table
    THEN [ok |-> FALSE, objs |-> objs]
    ELSE LET s == objs[table[key]]
         IN  [ok |-> TRUE,
              objs |-> [objs EXCEPT ![table[key]] =
                [viewport |-> IF viewport # <<>> THEN viewport[1]
                              ELSE s.viewport,
                 width |-> IF width # <<>>
                           THEN clamp(width[1], MIN_WIDTH, MAX_WIDTH)
                           ELSE s.width,
                 source_entity_id |-> IF source_entity_id # UNSET
                                      THEN source_entity_id
                                      ELSE s.source_entity_id,
                 quality |-> IF quality # <<>>
                             THEN clamp(quality[1], MIN_QUALITY, MAX_QUALITY)
                             ELSE s.quality,
                 fps |-> IF fps # <<>> THEN clamp(fps[1], MIN_FPS, MAX_FPS)
                         ELSE s.fps]]]

\* CameraStreamCoordinator.remove_session
remove_session(table, key) == Drop(table, {key})

\* CameraViewportView.post after the body was read: the status it answers
\* and the session objects it leaves
viewport_post(payload, table, objs) ==
    LET sid == Get(payload, "source_entity_id", UNSET)
        viewport == IF payload.has \cap {"x", "y", "w", "h"} # {}
                    THEN <<viewport_of(payload)>> ELSE <<>>
        width == IF "width" \in payload.has THEN <<payload.width>> ELSE <<>>
        quality == IF "quality" \in payload.has THEN <<payload.quality>>
                   ELSE <<>>
        fps == IF "fps" \in payload.has THEN <<payload.fps>> ELSE <<>>
        updated == update_stream_session(table, objs,
                        <<payload.watch_id, payload.entity_id>>,
                        viewport, width, sid, quality, fps)
    IN  IF payload.entity_id = NotAnId \/ ~IsStr(payload.watch_id)
        THEN [status |-> 400, objs |-> objs]
        ELSE IF "source_entity_id" \in payload.has /\ sid # NoSource
                /\ ~is_camera_id(sid)
        THEN [status |-> 400, objs |-> objs]
        ELSE IF "source_entity_id" \in payload.has /\ sid # NoSource
                /\ sid \notin CameraStates
        THEN [status |-> 404, objs |-> objs]
        ELSE IF updated.ok THEN [status |-> 200, objs |-> updated.objs]
        ELSE [status |-> 404, objs |-> objs]

\* The frame loop of CameraStreamView.get.  pc: "idle" (no request),
\* "preparing" (await response.prepare),
\* "fetching" (await async_get_image), "processing" (await the executor),
\* "writing" (await response.write), "sleeping" (await asyncio.sleep).
\* updated and fail_run are history: updated says that the session was
\* changed since the iteration under way read it; fail_run counts, for each
\* entity, the fetches from it as override that failed in a row.
IdleStream ==
    [pc |-> "idle", watch_id |-> "", entity_id |-> NoSource, session |-> 0,
     consecutive_source_errors |-> 0,
     current_viewport |-> DefaultViewport, current_width |-> DEFAULT_WIDTH,
     current_quality |-> DEFAULT_QUALITY, fetch_entity |-> NoSource,
     updated |-> FALSE, fail_run |-> <<>>]

InIteration(s) == s.pc \in {"fetching", "processing", "writing"}

\* the streams that read the session object id in the iteration under way
\* are marked
Touch(ss, id) ==
    [t \in DOMAIN ss |->
        IF InIteration(ss[t]) /\ ss[t].session = id
        THEN [ss[t] EXCEPT !.updated = TRUE] ELSE ss[t]]

\* What a camera step did.  kind: "open", "post", "begin", "frame" (a frame
\* was written), "error" (a fetch, the processing or the write failed),
\* "none", "end" (the handler ended); reverted: the override the step
\* reverted, of_run: the failures in a row of that override before the step
NoCamera ==
    [kind |-> "none", task |-> 0, status |-> 0, payload |-> <<>>,
     frame |-> <<>>, reverted |-> NoSource, of_run |-> 0, updated |-> FALSE]

InitCamera ==
    /\ stream_sessions = <<>>
    /\ session_objs = <<>>
    /\ streams = [t \in StreamTasks |-> IdleStream]
    /\ nOpens = 0
    /\ camLast = NoCamera

\* _cleanup_orphaned_pairing_tokens has not been called
\* ------------------------------------------------------------------------
\* Push notifications: values and operators (notifications.py,
\* apns_client.py)
\* ------------------------------------------------------------------------

\* TokenEntry.environment: "development" or "production"
Environments == {"development", "production"}

\* _DEAD_TOKEN_REASONS, and the other reasons a send can fail with
DEAD_TOKEN_REASONS == {"BadDeviceToken", "Unregistered",
                       "DeviceTokenNotForTopic"}
Reasons == DEAD_TOKEN_REASONS \cup {"TooManyRequests", "connection_error"}

\* TokenEntry, and the store's dict as the sequence of its items
TokenEntry(device_token, platform, environment) ==
    [device_token |-> device_token, platform |-> platform,
     environment |-> environment]

Item(watch_id, entry) == [watch_id |-> watch_id, entry |-> entry]

index_of(toks, watch_id) ==
    IF \E i \in DOMAIN toks : toks[i].watch_id = watch_id
    THEN CHOOSE i \in DOMAIN toks : toks[i].watch_id = watch_id
    ELSE 0

\* NotificationTokenStore.get_entry: <<>> is None
get_entry(toks, watch_id) ==
    IF index_of(toks, watch_id) = 0 THEN <<>>
    ELSE <<toks[index_of(toks, watch_id)].entry>>

\* A variant of is_dead_token that knows one reason only
is_dead_token_bad_only(reason) == reason = "BadDeviceToken"

\* APNsClient.is_dead_token
is_dead_token(reason) == reason \in DEAD_TOKEN_REASONS

\* A variant of register that writes the entry whatever is stored
register_always_writes(toks, watch_id, device_token, platform, environment) ==
    [tokens |-> IF index_of(toks, watch_id) = 0
                THEN Append(toks, Item(watch_id,
                        TokenEntry(device_token, platform, environment)))
                ELSE [toks EXCEPT ![index_of(toks, watch_id)].entry =
                        TokenEntry(device_token, platform, environment)],
     saved |-> TRUE]

\* NotificationTokenStore.register: the dict it leaves, and whether it
\* called async_delay_save
register(toks, watch_id, device_token, platform, environment) ==
    LET existing == get_entry(toks, watch_id)
    IN  IF /\ existing # <<>>
           /\ existing[1].device_token = device_token
           /\ existing[1].environment = environment
        THEN [tokens |-> toks, saved |-> FALSE]
        ELSE [tokens |-> IF existing = <<>>
                         THEN Append(toks, Item(watch_id,
                                TokenEntry(device_token, platform, environment)))
                         ELSE [toks EXCEPT ![index_of(toks, watch_id)].entry =
                                TokenEntry(device_token, platform, environment)],
              saved |-> TRUE]

\* NotificationTokenStore.remove
remove(toks, watch_id) ==
    IF index_of(toks, watch_id) = 0
    THEN [tokens |-> toks, saved |-> FALSE]
    ELSE [tokens |-> SelectSeq(toks, LAMBDA it : it.watch_id # watch_id),
          saved |-> TRUE]

\* NotificationTokenStore._serialize
serialize(toks) ==
    [w \in {toks[i].watch_id : i \in DOMAIN toks} |->
        toks[index_of(toks, w)].entry]

\* isinstance(v, str) and v
NonEmptyStr(v) == IsStr(v) /\ v # ""

\* WatchUpdatesView.post, lines 1042-1054: the registration that rides on a
\* poll.  body: the device_token and apns_environment keys of the request
has_device_token(body) ==
    "device_token" \in body.has /\ NonEmptyStr(body.device_token)

apns_env(body) ==
    IF Get(body, "apns_environment", "production")
            \notin {"development", "production"}
    THEN "production"
    ELSE Get(body, "apns_environment", "production")

piggyback_register(toks, watch_id, body) ==
    IF has_device_token(body)
    THEN register(toks, watch_id, body.device_token, "watchos", apns_env(body))
    ELSE [tokens |-> toks, saved |-> FALSE]

\* the arguments of a call of register, as a step records them
Reg(device_token, environment) ==
    <<[device_token |-> device_token, environment |-> environment]>>

\* NotificationRegisterView.post after the body was read
register_post(toks, payload) ==
    IF ~("watch_id" \in payload.has /\ NonEmptyStr(payload.watch_id))
    THEN [status |-> 400, tokens |-> toks, saved |-> FALSE]
    ELSE IF ~("device_token" \in payload.has
              /\ NonEmptyStr(payload.device_token))
    THEN [status |-> 400, tokens |-> toks, saved |-> FALSE]
    ELSE LET r == register(toks, payload.watch_id, payload.device_token,
                           Get(payload, "platform", "watchos"),
                           Get(payload, "environment", "production"))
         IN  [status |-> 200, tokens |-> r.tokens, saved |-> r.saved]

\* send_push: the environment of the second attempt
alt_environment(environment) ==
    IF environment = "production" THEN "development" ELSE "production"

\* _get_client: the gateway client an attempt on environment is sent over
get_client(environment) ==
    IF environment = "development" THEN "sandbox" ELSE "production"

\* send_push, line 152: the failure after which the other environment is
\* tried
tries_other_environment(reason) == reason = "BadDeviceToken"

\* The _handle_send_notification coroutine.  pc: "idle", "first" (send_push
\* awaits its first _send_once), "second" (send_push awaits the _send_once
\* on the other environment).  targets: the items the call resolved, i: the
\* item the loop is at, attempts: the environments send_push tried for it,
\* reason: the reason its first _send_once failed with ("" before that),
\* failures: the (watch_id, reason) pairs so far; attempted is history: the
\* watches of the items send_push has returned for
IdleSend ==
    [pc |-> "idle", targets |-> <<>>, i |-> 0, attempts |-> <<>>,
     reason |-> "", failures |-> <<>>, attempted |-> {}]

\* What a notification step did.  kind: "register" (the endpoint), "poll"
\* (a poll with its registration), "send" (the call resolved its targets),
\* "result" (send_push returned for a target), "attempt" (the first
\* _send_once failed with reason, and send_push tries the other
\* environment), "save", "none".
\* previous: the entry the store held for watch_id before the step;
\* reg: the device token and environment the step called register with;
\* i, n: the item the result is for and the number of targets of the call;
\* done: the call ended with this step; raised: it ended with an error
NoNote ==
    [kind |-> "none", task |-> 0, status |-> 0, watch_id |-> "",
     device_token |-> "", environment |-> "", previous |-> <<>>,
     saved |-> FALSE, success |-> FALSE, reason |-> "", used_env |-> "",
     attempts |-> <<>>, i |-> 0, n |-> 0, done |-> FALSE, raised |-> FALSE,
     reg |-> <<>>]

SendTasks == {1, 2}

\* NotificationTokenStore.__init__ with nothing in storage
InitNotifications ==
    /\ tokens = <<>>
    /\ save_pending = FALSE
    /\ on_disk = <<>>
    /\ sends = [t \in SendTasks |-> IdleSend]
    /\ noteLast = NoNote

IdleCleanup ==
    [pc |-> "idle", active_token_ids |-> {}, found |-> <<>>, revoked |-> {}]

InitDelta ==
    /\ cursor = 0
    /\ events = <<>>
    /\ generation = 0
    /\ generation_event = FALSE
    /\ sessions = <<>>
    /\ polls = [p \in Tasks |-> IdlePoll]
    /\ last = NoResponse
    /\ nIngest = 0
    /\ nPolls = 0
    /\ clientSince = [w \in Watches |-> AnySince]
    /\ delivered = [w \in Watches |-> <<>>]
    /\ resync_due = {}

\* PairingCoordinator.__init__, but for the table and the tokens of hass.auth
InitPairingHistory ==
    /\ active_code = NoCode
    /\ creates = [t \in CreateTasks |-> IdleCreate]
    /\ redeem_requests = [t \in RedeemTasks |-> NoCode]
    /\ nCodes = 0
    /\ redeemed = [c \in Codes |-> 0]
    /\ was_active = {}
    /\ pairLast = NoRedeem

Init ==
    /\ InitDelta
    /\ InitPairingHistory
    /\ pairing_sessions = <<>>
    /\ refresh_tokens = {}
    /\ auth_tokens = <<>>
    /\ cleanup_task = IdleCleanup
    /\ InitCamera
    /\ InitNotifications

\* WatchUpdatesView.post -> DeltaCoordinator.handle_poll, up to its first
\* return or await.  The request is served by the first free task.
Poll(p, watch_id, since, config_hash, raw_entities, raw_timeout, force_delta, states) ==
    /\ last = NoResponse
    /\ polls[p].pc = "idle"
    /\ \A q \in Tasks : q < p => polls[q].pc # "idle"
    /\ nPolls < MaxPolls
    /\ LET entities == IF raw_entities = NoEntities THEN NoEntities
                       ELSE normalized_entities(raw_entities)
           timeout == clamp_timeout(raw_timeout)
           kept == prune_sessions(sessions)
           orphaned == Orphan(polls, sessions, DOMAIN sessions \ DOMAIN kept)
           is_new_session == watch_id \notin DOMAIN kept
           found == IF is_new_session THEN WatchSession ELSE kept[watch_id]
           session == update_session([found EXCEPT !.idle = 0],
                                     config_hash, entities)
           r == handle_poll(session, since, timeout, force_delta, states)
       IN  /\ sessions' = [x \in DOMAIN kept \cup {watch_id} |->
                              IF x = watch_id THEN session ELSE kept[x]]
           /\ generation_event' = r.flag
           /\ polls' = IF r.out = "return" THEN orphaned
                       ELSE [orphaned EXCEPT ![p] =
                               [pc |-> "waiting", watch_id |-> watch_id,
                                session |-> <<>>,
                                since_cursor |-> r.since_cursor,
                                remaining |-> r.remaining]]
           /\ last' = [r.answer EXCEPT
                         !.kind = "dispatch", !.task = p, !.watch_id = watch_id,
                         !.since = since,
                         !.has_entities = (raw_entities # NoEntities),
                         !.config_hash = config_hash,
                         !.force_delta = force_delta,
                         !.states = states,
                         !.pruned = DOMAIN sessions \ DOMAIN kept,
                         !.entities = entities]
    /\ nPolls' = nPolls + 1
    /\ UNCHANGED <<cursor, events, generation, nIngest>>

\* handle_poll, lines 396-415 and round the loop: the coroutine runs again
\* after the generation event woke it
Resume(p) ==
    /\ last = NoResponse
    /\ polls[p].pc = "woken"
    /\ LET r == after_wake(polls[p].since_cursor, SessionOf(p).entities,
                           polls[p].remaining)
       IN  /\ generation_event' = r.flag
           /\ polls' = [polls EXCEPT ![p] =
                          IF r.out = "return" THEN IdlePoll
                          ELSE [polls[p] EXCEPT
                                  !.pc = "waiting",
                                  !.since_cursor = r.since_cursor]]
           /\ last' = [r.answer EXCEPT
                         !.kind = "resume", !.task = p,
                         !.watch_id = polls[p].watch_id]
    /\ UNCHANGED <<cursor, events, generation, sessions,
                   nIngest, nPolls>>

\* handle_poll, lines 391-394: wait_for raises TimeoutError at the deadline
Timeout(p) ==
    /\ last = NoResponse
    /\ polls[p].pc = "waiting"
    /\ polls[p].remaining <= 0
    /\ polls' = [polls EXCEPT ![p] = IdlePoll]
    /\ last' = [NoContent("timeout") EXCEPT
                  !.kind = "resume", !.task = p, !.watch_id = polls[p].watch_id]
    /\ UNCHANGED <<cursor, events, generation, generation_event, sessions,
                   nIngest, nPolls>>

\* A variant of pop_session that leaves the table as it is
pop_session_keeps(table, watch_id) == table

\* self._sessions.pop(watch_id, None)
pop_session(table, watch_id) ==
    [x \in DOMAIN table \ {watch_id} |-> table[x]]

\* handle_poll, lines 416-419: the request is cancelled during the wait
Cancel(p) ==
    /\ last = NoResponse
    /\ Suspended(p)
    /\ LET w == polls[p].watch_id
       IN  /\ sessions' = pop_session(sessions, w)
           /\ polls' = Orphan([polls EXCEPT ![p] = IdlePoll], sessions, {w})
           /\ last' = [NoResponse EXCEPT
                         !.kind = "cancel", !.task = p, !.watch_id = w]
    /\ UNCHANGED <<cursor, events, generation, generation_event,
                   nIngest, nPolls>>

\* async_force_resync
ForceResync ==
    /\ last = NoResponse
    /\ sessions' = <<>>
    /\ polls' = Orphan(polls, sessions, DOMAIN sessions)
    /\ last' = NoResponse
    /\ UNCHANGED <<cursor, events, generation, generation_event,
                   nIngest, nPolls>>

\* The event bus delivers state_changed with new_state = (entity_id, state)
Ingest(entity_id, state) ==
    /\ last = NoResponse
    /\ nIngest < MaxIngest
    /\ cursor' = cursor + 1
    /\ events' = RingAppend(events, DeltaEvent(cursor + 1, entity_id, state))
    /\ generation' = generation + 1
    /\ generation_event' = TRUE
    /\ polls' = event_set(polls)
    /\ nIngest' = nIngest + 1
    /\ last' = NoResponse
    /\ UNCHANGED <<sessions, nPolls>>

\* The event bus delivers state_changed with new_state = None: the entity
\* was removed, and _handle_state_changed returns at once (lines 424-426)
IngestRemoved ==
    /\ last = NoResponse
    /\ last' = [NoResponse EXCEPT !.kind = "removed"]
    /\ UNCHANGED <<cursor, events, generation, generation_event, sessions,
                   polls, nIngest, nPolls>>

\* One clock tick.  The event loop runs a woken coroutine and a due timeout
\* before the clock moves on.
Tick ==
    /\ last = NoResponse
    /\ \A p \in Tasks : polls[p].pc # "woken"
    /\ \A p \in Tasks : polls[p].pc = "waiting" => polls[p].remaining > 0
    /\ sessions' = [w \in DOMAIN sessions |->
                      [sessions[w] EXCEPT
                         !.idle = Min(@ + 1, SESSION_TTL + 1)]]
    /\ polls' = [p \in Tasks |->
                   IF polls[p].pc = "waiting"
                   THEN [polls[p] EXCEPT !.remaining = @ - 1]
                   ELSE polls[p]]
    /\ last' = NoResponse
    /\ UNCHANGED <<cursor, events, generation, generation_event,
                   nIngest, nPolls>>

\* The answer of a step is looked at in a state of its own: the next step
\* starts once it has left.
Sent ==
    /\ last # NoResponse
    /\ last' = NoResponse
    /\ UNCHANGED <<cursor, events, generation, generation_event, sessions,
                   polls, nIngest, nPolls>>

\* The coordinator's fields and hass.auth take the values of st
Becomes(st) ==
    /\ pairing_sessions' = st.sessions
    /\ active_code' = st.active_code
    /\ refresh_tokens' = st.tokens

\* async_create_pairing_code up to its await of the AuthService (lines
\* 810-814); with refresh, called from async_refresh_active_pairing, which
\* first reads the active code (line 862)
CreateBegin(t, refresh) ==
    /\ creates[t].pc = "idle"
    /\ \A u \in CreateTasks : u < t => creates[u].pc # "idle"
    /\ nCodes < MaxCodes
    /\ Becomes(prune_expired(PairingState))
    /\ creates' = [creates EXCEPT ![t] =
            [pc |-> "creating", refresh |-> refresh, code |-> nCodes + 1,
             previous_active_code |->
                IF refresh THEN active_code ELSE NoCode]]
    /\ nCodes' = nCodes + 1
    /\ pairLast' = [NoRedeem EXCEPT !.kind = "create", !.code = nCodes + 1,
                                    !.revoked = refresh_tokens \ refresh_tokens']
    /\ UNCHANGED <<redeem_requests, redeemed, was_active>>

\* The AuthService returns the refresh token: async_create_pairing_code runs
\* to its end (lines 821-850) and, with refresh, async_refresh_active_pairing
\* does too (lines 871-878)
CreateEnd(t) ==
    /\ creates[t].pc = "creating"
    /\ LET code == creates[t].code
           stored == store_pairing_session(PairingState, code)
       IN  /\ Becomes(IF creates[t].refresh
                      THEN replace_active_code(stored,
                               creates[t].previous_active_code, code)
                      ELSE stored)
           /\ was_active' = IF creates[t].refresh THEN was_active \cup {code}
                            ELSE was_active
    /\ creates' = [creates EXCEPT ![t] = IdleCreate]
    /\ pairLast' = [NoRedeem EXCEPT
                        !.revoked = refresh_tokens \ refresh_tokens']
    /\ UNCHANGED <<redeem_requests, nCodes, redeemed>>

\* PairingRedeemView.post up to its await of the request body (line 1180)
RedeemBegin(t, code) ==
    /\ redeem_requests[t] = NoCode
    /\ \A u \in RedeemTasks : u < t => redeem_requests[u] # NoCode
    /\ redeem_requests' = [redeem_requests EXCEPT ![t] = code]
    /\ pairLast' = NoRedeem
    /\ UNCHANGED <<pairing_sessions, active_code, refresh_tokens, creates,
                   nCodes, redeemed, was_active>>

\* PairingRedeemView.post from line 1184 on: async_redeem_pairing_code, then
\* 200 with the token payload, or 400
RedeemEnd(t) ==
    /\ redeem_requests[t] # NoCode
    /\ LET code == redeem_requests[t]
           r == redeem_pairing_code(PairingState, code)
       IN  /\ Becomes(r.st)
           /\ redeemed' = IF r.ok THEN [redeemed EXCEPT ![code] = Min(@ + 1, 2)]
                          ELSE redeemed
           /\ pairLast' = [kind |-> "redeem", code |-> code, ok |-> r.ok,
                           revoked |-> refresh_tokens \ refresh_tokens']
    /\ redeem_requests' = [redeem_requests EXCEPT ![t] = NoCode]
    /\ UNCHANGED <<creates, nCodes, was_active>>

\* _handle_stop and async_unload_entry: PairingCoordinator.async_shutdown
PairingShutdown ==
    /\ Becomes(pairing_shutdown(PairingState))
    /\ pairLast' = [NoRedeem EXCEPT
                        !.kind = "shutdown",
                        !.revoked = refresh_tokens \ refresh_tokens']
    /\ UNCHANGED <<creates, redeem_requests, nCodes, redeemed, was_active>>

\* hass.auth removes a refresh token on its own account (the user deletes
\* it, _cleanup_orphaned_pairing_tokens revokes it)
AuthRemove(id) ==
    /\ id \in refresh_tokens
    /\ refresh_tokens' = refresh_tokens \ {id}
    /\ pairLast' = NoRedeem
    /\ UNCHANGED <<pairing_sessions, active_code, creates, redeem_requests,
                   nCodes, redeemed, was_active>>

\* One clock tick for the pairing sessions
PairingTick ==
    /\ \E c \in DOMAIN pairing_sessions : pairing_sessions[c].ttl > 0
    /\ pairing_sessions' = [c \in DOMAIN pairing_sessions |->
            [pairing_sessions[c] EXCEPT !.ttl = Max(@ - 1, 0)]]
    /\ pairLast' = NoRedeem
    /\ UNCHANGED <<active_code, refresh_tokens, creates, redeem_requests,
                   nCodes, redeemed, was_active>>

\* The polls whose inputs are drawn from the sets given.  Only a snapshot
\* request (since absent or empty) reads hass.states.
StoresRead(since, St) == IF since \in {NoSince, <<>>} THEN St ELSE {<<>>}

PollFrom(W, S, H, L, T, F, St) ==
    \E p \in Tasks, w \in W, since \in S, h \in H, l \in L, t \in T, f \in F :
        \E states \in StoresRead(since, St) :
            Poll(p, w, since, h, l, t, f, states)

IngestFrom(E, V) == \E e \in E, v \in V : Ingest(e, v)

\* A poll of a client that echoes: since is the next_cursor of its previous
\* answer (its previous since after a 204, which has no body), S0 on its first
\* poll, and no poll of this client is in flight.
EchoPollFrom(W, S0, H, L, T, F, St) ==
    \E p \in Tasks, w \in W, h \in H, l \in L, t \in T, f \in F :
        \E since \in (IF clientSince[w] = AnySince THEN S0 ELSE {clientSince[w]}),
           states \in St :
            /\ \A q \in Tasks : polls[q].pc # "idle" => polls[q].watch_id # w
            /\ Poll(p, w, since, h, l, t, f, states)
            /\ clientSince' = [clientSince EXCEPT ![w] =
                    IF last'.body THEN last'.next_cursor ELSE since]
            /\ delivered' = [delivered EXCEPT ![w] =
                    IF last'.path = "immediate"
                    THEN @ \o Cursors(last'.events) ELSE @]
            /\ UNCHANGED resync_due

EchoResume(p) ==
    /\ Resume(p)
    /\ clientSince' = [clientSince EXCEPT ![polls[p].watch_id] =
            IF last'.body THEN last'.next_cursor ELSE @]
    /\ delivered' = [delivered EXCEPT ![polls[p].watch_id] =
            IF last'.path = "wake" THEN @ \o Cursors(last'.events) ELSE @]
    /\ UNCHANGED resync_due

Others ==
    \/ \E p \in Tasks : Timeout(p)
    \/ \E p \in Tasks : Cancel(p)
    \/ ForceResync
    \/ IngestRemoved
    \/ Tick
    \/ Sent

Environment ==
    \/ \E p \in Tasks : Resume(p)
    \/ Others

ListA == <<"light.a", "light.a">>
ListB == <<NotAString, "light.b">>
ListAB == <<"", "light.a", "light.b">>

\* Several clients and the feed: cursors, the ring, the wait loop
Next ==
    \/ PollFrom(Watches, {<<"0">>}, {"h1"}, {ListA, ListB},
                {MAX_TIMEOUT_SECONDS}, {FALSE}, {<<>>}) /\ UNCHANGED <<echoVars, pairVars, restVars>>
    \/ IngestFrom(Entities, {"on"}) /\ UNCHANGED <<echoVars, pairVars, restVars>>
    \/ Environment /\ UNCHANGED <<echoVars, pairVars, restVars>>

Spec == Init /\ [][Next]_vars

\* One client, every form of since
NextCursor ==
    \/ PollFrom({"w1"}, SinceInputs, {"h1"}, {ListA, NoEntities},
                {MAX_TIMEOUT_SECONDS}, {FALSE}, {<<>>})
        /\ UNCHANGED <<echoVars, pairVars, restVars>>
    \/ IngestFrom(Entities, {"on"}) /\ UNCHANGED <<echoVars, pairVars, restVars>>
    \/ Environment /\ UNCHANGED <<echoVars, pairVars, restVars>>

SpecCursor == Init /\ [][NextCursor]_vars

\* One client, every form of entities and config_hash
NextSession ==
    \/ PollFrom({"w1"}, {NoSince, <<"0">>}, Hashes,
                EntityLists \cup {NoEntities}, {MAX_TIMEOUT_SECONDS}, {FALSE},
                {<<>>}) /\ UNCHANGED <<echoVars, pairVars, restVars>>
    \/ IngestFrom({"light.a"}, {"on"}) /\ UNCHANGED <<echoVars, pairVars, restVars>>
    \/ Environment /\ UNCHANGED <<echoVars, pairVars, restVars>>

SpecSession == Init /\ [][NextSession]_vars

\* One client and the state store: snapshots
NextSnapshot ==
    \/ PollFrom({"w1"}, {NoSince, <<>>, <<"0">>}, {"h1"},
                {ListA, ListAB, NoEntities}, {MAX_TIMEOUT_SECONDS}, {FALSE},
                Stores) /\ UNCHANGED <<echoVars, pairVars, restVars>>
    \/ IngestFrom({"light.a"}, {"on"}) /\ UNCHANGED <<echoVars, pairVars, restVars>>
    \/ Environment /\ UNCHANGED <<echoVars, pairVars, restVars>>

SpecSnapshot == Init /\ [][NextSnapshot]_vars

\* The wait loop under a fair scheduler: the event loop runs every coroutine
\* that is ready and every timer that is due, and the clock moves on.  A step
\* is taken once the answer of the step before has left, so a ready coroutine
\* is enabled again and again rather than without a break: the fairness of
\* the scheduler is strong fairness here.  No request is cancelled and no
\* resync is forced.
NextLive ==
    \/ PollFrom({"w1"}, {<<"0">>}, {"h1"}, {ListA},
                {MIN_TIMEOUT_SECONDS}, {FALSE}, {<<>>})
        /\ UNCHANGED <<echoVars, pairVars, restVars>>
    \/ IngestFrom(Entities, {"on"}) /\ UNCHANGED <<echoVars, pairVars, restVars>>
    \/ (\E p \in Tasks : Resume(p)) /\ UNCHANGED <<echoVars, pairVars, restVars>>
    \/ (\E p \in Tasks : Timeout(p)) /\ UNCHANGED <<echoVars, pairVars, restVars>>
    \/ IngestRemoved /\ UNCHANGED <<echoVars, pairVars, restVars>>
    \/ Tick /\ UNCHANGED <<echoVars, pairVars, restVars>>
    \/ Sent /\ UNCHANGED <<echoVars, pairVars, restVars>>

SpecLive ==
    /\ Init /\ [][NextLive]_vars
    /\ SF_vars(Tick /\ UNCHANGED <<echoVars, pairVars, restVars>>)
    /\ WF_vars(Sent /\ UNCHANGED <<echoVars, pairVars, restVars>>)
    /\ \A p \in Tasks :
            SF_vars(Resume(p) /\ UNCHANGED <<echoVars, pairVars, restVars>>)
    /\ \A q \in Tasks :
            SF_vars(Timeout(q) /\ UNCHANGED <<echoVars, pairVars, restVars>>)

\* One client that subscribes to light.a, and state changes of light.a only:
\* every event logged is an event of the subscription
NextEvict ==
    \/ PollFrom({"w1"}, {<<"0">>, <<"1">>}, {"h1"}, {ListA},
                {MAX_TIMEOUT_SECONDS}, {FALSE}, {<<>>})
        /\ UNCHANGED <<echoVars, pairVars, restVars>>
    \/ IngestFrom({"light.a"}, {"on"}) /\ UNCHANGED <<echoVars, pairVars, restVars>>
    \/ Environment /\ UNCHANGED <<echoVars, pairVars, restVars>>

SpecEvict == Init /\ [][NextEvict]_vars

\* Two clients, timeouts below the clamp and beyond the session TTL, and the
\* clock: sessions expire and are swept by the next poll.  No request is
\* cancelled and no resync is forced, so a session leaves the table in the
\* sweep only.
LongTimeouts == {MIN_TIMEOUT_SECONDS - 1, SESSION_TTL + 2}

NextExpiry ==
    \/ PollFrom(Watches, {<<"0">>}, {"h1"}, {ListA, NoEntities},
                LongTimeouts, {FALSE}, {<<>>})
        /\ UNCHANGED <<echoVars, pairVars, restVars>>
    \/ IngestFrom({"light.a"}, {"on"}) /\ UNCHANGED <<echoVars, pairVars, restVars>>
    \/ (\E p \in Tasks : Resume(p)) /\ UNCHANGED <<echoVars, pairVars, restVars>>
    \/ (\E p \in Tasks : Timeout(p)) /\ UNCHANGED <<echoVars, pairVars, restVars>>
    \/ Tick /\ UNCHANGED <<echoVars, pairVars, restVars>>
    \/ Sent /\ UNCHANGED <<echoVars, pairVars, restVars>>

SpecExpiry == Init /\ [][NextExpiry]_vars

\* A poll, with the history of forced resyncs: the client is answered with
\* a refresh when the answer asks for its entities, is a snapshot or is a 410
Refreshed(answer) ==
    answer.need_entities \/ answer.path = "snapshot" \/ answer.status = 410

ResyncPollFrom(W, S, H, L, T, F, St) ==
    \E p \in Tasks, w \in W, since \in S, h \in H, l \in L, t \in T, f \in F :
        \E states \in StoresRead(since, St) :
            /\ Poll(p, w, since, h, l, t, f, states)
            /\ resync_due' = IF Refreshed(last') THEN resync_due \ {w}
                              ELSE resync_due
            /\ UNCHANGED <<clientSince, delivered>>

\* The force_resync service, with its history: every client that has a
\* session is due a refresh
ResyncForced ==
    /\ ForceResync
    /\ resync_due' = resync_due \cup DOMAIN sessions
    /\ UNCHANGED <<clientSince, delivered>>

\* One client, the feed and the force_resync service
NextResync ==
    \/ ResyncPollFrom({"w1"}, {NoSince, <<"0">>}, {"h1"}, {ListA, NoEntities},
                      {MAX_TIMEOUT_SECONDS}, BOOLEAN, {<<>>})
        /\ UNCHANGED <<pairVars, restVars>>
    \/ ResyncForced /\ UNCHANGED <<pairVars, restVars>>
    \/ IngestFrom({"light.a"}, {"on"}) /\ UNCHANGED <<echoVars, pairVars, restVars>>
    \/ (\E p \in Tasks : Resume(p)) /\ UNCHANGED <<echoVars, pairVars, restVars>>
    \/ (\E p \in Tasks : Timeout(p)) /\ UNCHANGED <<echoVars, pairVars, restVars>>
    \/ (\E p \in Tasks : Cancel(p)) /\ UNCHANGED <<echoVars, pairVars, restVars>>
    \/ Tick /\ UNCHANGED <<echoVars, pairVars, restVars>>
    \/ Sent /\ UNCHANGED <<echoVars, pairVars, restVars>>

SpecResync == Init /\ [][NextResync]_vars

\* A client that echoes next_cursor
NextEcho ==
    \/ EchoPollFrom({"w1"}, {NoSince, <<"0">>, <<"1">>}, Hashes,
                    {ListA, ListAB, NoEntities}, TimeoutInputs, BOOLEAN, {<<>>})
        /\ UNCHANGED <<pairVars, restVars>>
    \/ (\E p \in Tasks : EchoResume(p)) /\ UNCHANGED <<pairVars, restVars>>
    \/ IngestFrom(Entities, {"on"}) /\ UNCHANGED <<echoVars, pairVars, restVars>>
    \/ Others /\ UNCHANGED <<echoVars, pairVars, restVars>>

SpecEcho == Init /\ [][NextEcho]_vars

\* The pairing service
NextPairing ==
    \/ (\E t \in CreateTasks, refresh \in BOOLEAN : CreateBegin(t, refresh))
        /\ UNCHANGED <<deltaVars, restVars>>
    \/ (\E t \in CreateTasks : CreateEnd(t)) /\ UNCHANGED <<deltaVars, restVars>>
    \/ (\E t \in RedeemTasks, code \in Codes : RedeemBegin(t, code))
        /\ UNCHANGED <<deltaVars, restVars>>
    \/ (\E t \in RedeemTasks : RedeemEnd(t)) /\ UNCHANGED <<deltaVars, restVars>>
    \/ PairingShutdown /\ UNCHANGED <<deltaVars, restVars>>
    \/ (\E id \in refresh_tokens : AuthRemove(id)) /\ UNCHANGED <<deltaVars, restVars>>
    \/ PairingTick /\ UNCHANGED <<deltaVars, restVars>>

SpecPairing == Init /\ [][NextPairing]_vars

\* ------------------------------------------------------------------------
\* Part 3: the startup cleanup of pairing refresh tokens (__init__.py)
\* ------------------------------------------------------------------------

PAIRING_CLIENT_ID == "https://home-assistant.io/iOS/dev-auth"

\* A client name is a string, here a sequence of words, or None
NoName == <<"None">>
QRPairingPrefix == <<"Wrist", "Assistant", "QR", "Pairing">>
PairingPrefix == <<"Wrist", "Assistant", "Pairing">>

\* str.startswith
startswith(name, prefix) ==
    /\ Len(name) >= Len(prefix)
    /\ SubSeq(name, 1, Len(prefix)) = prefix

\* The names the refresh tokens of hass.auth bear: none, empty, the two names
\* pairing codes were created with, the name a redeem with device_name
\* gives (api.py 895), names of other clients
TokenNames ==
    {NoName, <<>>,
     QRPairingPrefix \o <<"ab">>, PairingPrefix \o <<"ab">>, PairingPrefix,
     <<"Wrist", "Assistant", "(watch)">>, <<"Wrist", "Assistant">>}

\* last_used_at: None or a time
NeverUsed == <<"None">>
UsedOnce == <<"2026">>

TokenAttrs ==
    [client_id : {PAIRING_CLIENT_ID, "https://other"},
     client_name : TokenNames,
     last_used_at : {NeverUsed, UsedOnce}]

\* PairingCoordinator.tracked_refresh_token_ids
tracked_refresh_token_ids(table) ==
    {table[c].refresh_token_id : c \in DOMAIN table}

\* A variant of the test of _cleanup_orphaned_pairing_tokens that does not
\* look at last_used_at
is_orphan_used_or_not(token_id, token, active_token_ids) ==
    /\ token.client_id = PAIRING_CLIENT_ID
    /\ token.client_name # NoName /\ token.client_name # <<>>
    /\ \/ startswith(token.client_name, QRPairingPrefix)
       \/ startswith(token.client_name, PairingPrefix)
    /\ token_id \notin active_token_ids

\* _cleanup_orphaned_pairing_tokens, lines 421-430: the test on one token
is_orphan(token_id, token, active_token_ids) ==
    /\ token.client_id = PAIRING_CLIENT_ID
    /\ token.client_name # NoName /\ token.client_name # <<>>
    /\ \/ startswith(token.client_name, QRPairingPrefix)
       \/ startswith(token.client_name, PairingPrefix)
    /\ token_id \notin active_token_ids
    /\ token.last_used_at = NeverUsed

\* The token ids of the store found at startup: tokens of earlier runs
StartupTokenIds == {TokenFor(c) : c \in Codes}

\* The state a call of _cleanup_orphaned_pairing_tokens can find: any store
\* of tokens, and a pairing table whose sessions' tokens are in the store
InitCleanup ==
    /\ InitDelta
    /\ InitPairingHistory
    /\ \E ids \in SUBSET StartupTokenIds : auth_tokens \in [ids -> TokenAttrs]
    /\ refresh_tokens = DOMAIN auth_tokens
    /\ \E cs \in SUBSET {c \in Codes : TokenFor(c) \in DOMAIN auth_tokens} :
            pairing_sessions = [c \in cs |-> PairingSession(c)]
    /\ cleanup_task = IdleCleanup
    /\ InitCamera
    /\ InitNotifications

\* _cleanup_orphaned_pairing_tokens up to its await of async_get_users
\* (lines 417-419)
CleanupBegin ==
    /\ cleanup_task.pc = "idle"
    /\ cleanup_task' = [IdleCleanup EXCEPT
            !.pc = "awaiting",
            !.active_token_ids = tracked_refresh_token_ids(pairing_sessions)]
    /\ UNCHANGED <<auth_tokens, pairVars>>

\* While the cleanup awaits, a client uses a token: hass.auth stamps it
TokenUse(id) ==
    /\ cleanup_task.pc = "awaiting"
    /\ id \in DOMAIN auth_tokens
    /\ auth_tokens[id].last_used_at = NeverUsed
    /\ auth_tokens' = [auth_tokens EXCEPT ![id].last_used_at = UsedOnce]
    /\ UNCHANGED <<cleanup_task, pairVars>>

\* _cleanup_orphaned_pairing_tokens from line 419 to its end: the walk over
\* the tokens of every user
CleanupEnd ==
    /\ cleanup_task.pc = "awaiting"
    /\ LET orphans == {id \in DOMAIN auth_tokens :
                          is_orphan(id, auth_tokens[id],
                                    cleanup_task.active_token_ids)}
       IN  /\ auth_tokens' = [id \in DOMAIN auth_tokens \ orphans |->
                                auth_tokens[id]]
           /\ refresh_tokens' = refresh_tokens \ orphans
           /\ cleanup_task' = [cleanup_task EXCEPT
                    !.pc = "done", !.found = auth_tokens, !.revoked = orphans]
    /\ UNCHANGED <<pairing_sessions, active_code, creates, redeem_requests,
                   nCodes, redeemed, was_active, pairLast>>

NextCleanup ==
    \/ CleanupBegin /\ UNCHANGED <<deltaVars, camVars, noteVars>>
    \/ (\E id \in StartupTokenIds : TokenUse(id))
        /\ UNCHANGED <<deltaVars, camVars, noteVars>>
    \/ CleanupEnd /\ UNCHANGED <<deltaVars, camVars, noteVars>>

SpecCleanup == InitCleanup /\ [][NextCleanup]_vars

\* ------------------------------------------------------------------------
\* Part 4: camera streams (camera_stream.py)
\* ------------------------------------------------------------------------

\* CameraStreamView.get up to its await of response.prepare
StreamOpen(t, watch_id, entity_id, query) ==
    /\ streams[t].pc = "idle"
    /\ nOpens < MaxOpens
    /\ nOpens' = nOpens + 1
    /\ IF entity_id \notin CameraStates \/ ~is_camera_id(entity_id)
       THEN /\ camLast' = [NoCamera EXCEPT !.kind = "open", !.task = t,
                                            !.status = 404]
            /\ UNCHANGED <<stream_sessions, session_objs, streams>>
       ELSE LET width == clamp(Get(query, "width", DEFAULT_WIDTH),
                               MIN_WIDTH, MAX_WIDTH)
                quality == clamp(Get(query, "quality", DEFAULT_QUALITY),
                                 MIN_QUALITY, MAX_QUALITY)
                fps == clamp(Get(query, "fps", DEFAULT_FPS), MIN_FPS, MAX_FPS)
                viewport == IF "x" \in query.has THEN viewport_of(query)
                            ELSE DefaultViewport
                g == get_or_create_session(stream_sessions, session_objs,
                        nOpens + 1, <<watch_id, entity_id>>,
                        width, quality, fps, viewport)
            IN  /\ stream_sessions' = g.table
                /\ session_objs' = g.objs
                /\ streams' = [Touch(streams, g.session) EXCEPT ![t] =
                        [IdleStream EXCEPT !.pc = "preparing",
                                           !.watch_id = watch_id,
                                           !.entity_id = entity_id,
                                           !.session = g.session]]
                /\ camLast' = [NoCamera EXCEPT !.kind = "open", !.task = t,
                                                !.status = 200]

\* A variant of read_params that reads the session once, before the loop
read_params_once(session, stream) ==
    IF stream.pc = "preparing"
    THEN [stream EXCEPT
            !.current_viewport = session.viewport,
            !.current_width = session.width,
            !.current_quality = session.quality,
            !.fetch_entity = IF session.source_entity_id # NoSource
                             THEN session.source_entity_id
                             ELSE stream.entity_id]
    ELSE stream

\* The top of the loop: the values of the session the iteration works with
read_params(session, stream) ==
    [stream EXCEPT
        !.current_viewport = session.viewport,
        !.current_width = session.width,
        !.current_quality = session.quality,
        !.fetch_entity = IF session.source_entity_id # NoSource
                         THEN session.source_entity_id
                         ELSE stream.entity_id]

\* response.prepare returns: consecutive_source_errors = 0, and the first
\* iteration of the loop starts, up to its await of async_get_image
Prepared(t) ==
    /\ streams[t].pc = "preparing"
    /\ streams' = [streams EXCEPT ![t] =
            [read_params(session_objs[streams[t].session], streams[t])
                EXCEPT !.pc = "fetching", !.updated = FALSE]]
    /\ camLast' = [NoCamera EXCEPT !.kind = "begin", !.task = t]
    /\ UNCHANGED <<stream_sessions, session_objs, nOpens>>

\* asyncio.sleep returns and the next iteration starts, up to its await of
\* async_get_image
IterBegin(t) ==
    /\ streams[t].pc = "sleeping"
    /\ streams' = [streams EXCEPT ![t] =
            [read_params(session_objs[streams[t].session], streams[t])
                EXCEPT !.pc = "fetching", !.updated = FALSE]]
    /\ camLast' = [NoCamera EXCEPT !.kind = "begin", !.task = t]
    /\ UNCHANGED <<stream_sessions, session_objs, nOpens>>

\* history: one more failure in a row of the override the fetch was from
Failed(run, stream) ==
    IF stream.fetch_entity = stream.entity_id THEN run
    ELSE Put(run, stream.fetch_entity,
             IF stream.fetch_entity \in DOMAIN run
             THEN Min(run[stream.fetch_entity] + 1, SOURCE_ERROR_LIMIT)
             ELSE 1)

RunOf(run, entity) == IF entity \in DOMAIN run THEN run[entity] ELSE 0

\* except HomeAssistantError / except Exception: the count after a failure.
\* The loop only tests the count against SOURCE_ERROR_LIMIT, so a count
\* beyond it is kept as SOURCE_ERROR_LIMIT.
errors_after_failure(stream) ==
    IF stream.fetch_entity # stream.entity_id
    THEN Min(stream.consecutive_source_errors + 1, SOURCE_ERROR_LIMIT)
    ELSE stream.consecutive_source_errors

\* A variant of the except branches that breaks out of the loop, as the
\* branch for a connection reset does
IterFailed_ends_stream(t) ==
    /\ stream_sessions' =
            remove_session(stream_sessions,
                           <<streams[t].watch_id, streams[t].entity_id>>)
    /\ streams' = [streams EXCEPT ![t] = IdleStream]
    /\ camLast' = [NoCamera EXCEPT !.kind = "error", !.task = t]
    /\ UNCHANGED <<session_objs, nOpens>>

\* The except branches for a failure that is not a connection reset, then
\* the revert of the override and the sleep (to the end of the iteration)
IterFailed(t) ==
    LET s == streams[t]
        session == session_objs[s.session]
        errors == errors_after_failure(s)
        run == Failed(s.fail_run, s)
        revert == errors >= SOURCE_ERROR_LIMIT
                  /\ session.source_entity_id # NoSource
    IN  /\ session_objs' =
            IF revert
            THEN [session_objs EXCEPT ![s.session].source_entity_id = NoSource]
            ELSE session_objs
        /\ streams' = [(IF revert THEN Touch(streams, s.session) ELSE streams)
                EXCEPT ![t] = [s EXCEPT
                    !.pc = "sleeping",
                    !.consecutive_source_errors = IF revert THEN 0 ELSE errors,
                    !.fail_run = IF revert THEN <<>> ELSE run]]
        /\ camLast' = [NoCamera EXCEPT
                !.kind = "error", !.task = t,
                !.reverted = IF revert THEN session.source_entity_id
                             ELSE NoSource,
                !.of_run = IF revert THEN RunOf(run, session.source_entity_id)
                           ELSE 0]
        /\ UNCHANGED <<stream_sessions, nOpens>>

\* the session objects that the table or a coroutine still refers to
Referenced(objs, table, ss) ==
    [id \in {i \in DOMAIN objs :
                \/ \E k \in DOMAIN table : table[k] = i
                \/ \E t \in DOMAIN ss : ss[t].session = i} |-> objs[id]]

\* finally: coordinator.remove_session(watch_id, entity_id); the handler ends
StreamEnd(t) ==
    /\ stream_sessions' =
            remove_session(stream_sessions,
                           <<streams[t].watch_id, streams[t].entity_id>>)
    /\ streams' = [streams EXCEPT ![t] = IdleStream]
    /\ session_objs' = Referenced(session_objs, stream_sessions', streams')
    /\ camLast' = [NoCamera EXCEPT !.kind = "end", !.task = t]
    /\ UNCHANGED nOpens

\* async_get_image returns or raises.  outcome: "image", "none" (no image
\* or no content: sleep and continue), "error", "reset" (the connection
\* was reset or aborted)
FetchReturns(t, outcome) ==
    /\ streams[t].pc = "fetching"
    /\ CASE outcome = "image" ->
                /\ streams' = [streams EXCEPT ![t].pc = "processing"]
                /\ camLast' = NoCamera
                /\ UNCHANGED <<stream_sessions, session_objs, nOpens>>
         [] outcome = "none" ->
                /\ streams' = [streams EXCEPT ![t].pc = "sleeping"]
                /\ camLast' = NoCamera
                /\ UNCHANGED <<stream_sessions, session_objs, nOpens>>
         [] outcome = "error" -> IterFailed(t)
         [] outcome = "reset" -> StreamEnd(t)

\* The executor job _process_frame returns or raises
ProcessReturns(t, ok) ==
    /\ streams[t].pc = "processing"
    /\ IF ok
       THEN /\ streams' = [streams EXCEPT ![t].pc = "writing"]
            /\ camLast' = NoCamera
            /\ UNCHANGED <<stream_sessions, session_objs, nOpens>>
       ELSE IterFailed(t)

\* response.write returns or raises.  outcome: "written", "error", "reset"
WriteReturns(t, outcome) ==
    /\ streams[t].pc = "writing"
    /\ CASE outcome = "written" ->
                /\ streams' = [streams EXCEPT
                        ![t].pc = "sleeping",
                        ![t].consecutive_source_errors = 0,
                        ![t].fail_run = <<>>]
                /\ camLast' = [NoCamera EXCEPT
                        !.kind = "frame", !.task = t,
                        !.updated = streams[t].updated,
                        !.frame = <<[viewport |-> streams[t].current_viewport,
                                     width |-> streams[t].current_width,
                                     quality |-> streams[t].current_quality,
                                     fetch_entity |-> streams[t].fetch_entity]>>]
                /\ UNCHANGED <<stream_sessions, session_objs, nOpens>>
         [] outcome = "error" -> IterFailed(t)
         [] outcome = "reset" -> StreamEnd(t)

\* The request is cancelled.  During response.prepare, which is outside the
\* try statement, the session stays in the table (as it does when
\* response.prepare raises because the peer is gone); in the loop the
\* finally clause removes it.
StreamCancel(t) ==
    /\ streams[t].pc # "idle"
    /\ IF streams[t].pc = "preparing"
       THEN /\ streams' = [streams EXCEPT ![t] = IdleStream]
            /\ camLast' = [NoCamera EXCEPT !.kind = "end", !.task = t]
            /\ UNCHANGED <<stream_sessions, session_objs, nOpens>>
       ELSE StreamEnd(t)

\* CameraViewportView.post
ViewportPost(payload) ==
    LET r == viewport_post(payload, stream_sessions, session_objs)
        key == <<payload.watch_id, payload.entity_id>>
    IN  /\ session_objs' = r.objs
        /\ streams' = IF r.status = 200
                      THEN Touch(streams, stream_sessions[key])
                      ELSE streams
        /\ camLast' = [NoCamera EXCEPT !.kind = "post", !.status = r.status,
                                        !.payload = <<payload>>]
        /\ UNCHANGED <<stream_sessions, nOpens>>

\* Requests and queries the slices draw from
NoFields ==
    [watch_id |-> "w1", entity_id |-> <<"camera", "a">>, has |-> {},
     x |-> 0, y |-> 0, w |-> 0, h |-> 0, width |-> 0, quality |-> 0,
     fps |-> 0, source_entity_id |-> UNSET]

Source(sid) ==
    [NoFields EXCEPT !.has = {"source_entity_id"}, !.source_entity_id = sid]

ViewportPayloads ==
    {NoFields,
     [NoFields EXCEPT !.has = {"x"}, !.x = 50],
     [NoFields EXCEPT !.has = {"x", "y", "w", "h"},
                      !.x = 120, !.y = 25, !.w = 0, !.h = 50],
     [NoFields EXCEPT !.has = {"width", "quality"},
                      !.width = 10, !.quality = 99],
     [NoFields EXCEPT !.has = {"fps"}, !.fps = 1],
     Source(<<"camera", "b">>), Source(NoSource),
     Source(<<"camera", "x">>), Source(<<"light", "a">>), Source(NotAnId),
     [NoFields EXCEPT !.watch_id = NotAString]}

OverridePayloads ==
    {Source(<<"camera", "b">>), Source(<<"camera", "c">>), Source(NoSource)}

Queries ==
    {NoFields,
     [NoFields EXCEPT !.has = {"x", "w", "width"},
                      !.x = 25, !.w = 40, !.width = 3000]}

\* One stream on camera.a whose frames come, with control requests of every
\* kind
NextCamera ==
    \/ (\E e \in {<<"camera", "a">>, <<"camera", "x">>}, q \in Queries :
            StreamOpen(1, "w1", e, q))
        /\ UNCHANGED <<deltaVars, pairVars, cleanVars, noteVars>>
    \/ Prepared(1) /\ UNCHANGED <<deltaVars, pairVars, cleanVars, noteVars>>
    \/ IterBegin(1) /\ UNCHANGED <<deltaVars, pairVars, cleanVars, noteVars>>
    \/ FetchReturns(1, "image") /\ UNCHANGED <<deltaVars, pairVars, cleanVars, noteVars>>
    \/ ProcessReturns(1, TRUE) /\ UNCHANGED <<deltaVars, pairVars, cleanVars, noteVars>>
    \/ WriteReturns(1, "written")
        /\ UNCHANGED <<deltaVars, pairVars, cleanVars, noteVars>>
    \/ StreamCancel(1) /\ UNCHANGED <<deltaVars, pairVars, cleanVars, noteVars>>
    \/ (\E payload \in ViewportPayloads : ViewportPost(payload))
        /\ UNCHANGED <<deltaVars, pairVars, cleanVars, noteVars>>

SpecCamera == Init /\ [][NextCamera]_vars

\* One stream on camera.a whose source override is set, changed and cleared
NextOverride ==
    \/ StreamOpen(1, "w1", <<"camera", "a">>, NoFields)
        /\ UNCHANGED <<deltaVars, pairVars, cleanVars, noteVars>>
    \/ Prepared(1) /\ UNCHANGED <<deltaVars, pairVars, cleanVars, noteVars>>
    \/ IterBegin(1) /\ UNCHANGED <<deltaVars, pairVars, cleanVars, noteVars>>
    \/ (\E o \in {"image", "none", "error", "reset"} : FetchReturns(1, o))
        /\ UNCHANGED <<deltaVars, pairVars, cleanVars, noteVars>>
    \/ (\E ok \in BOOLEAN : ProcessReturns(1, ok))
        /\ UNCHANGED <<deltaVars, pairVars, cleanVars, noteVars>>
    \/ (\E o \in {"written", "error", "reset"} : WriteReturns(1, o))
        /\ UNCHANGED <<deltaVars, pairVars, cleanVars, noteVars>>
    \/ StreamCancel(1) /\ UNCHANGED <<deltaVars, pairVars, cleanVars, noteVars>>
    \/ (\E payload \in OverridePayloads : ViewportPost(payload))
        /\ UNCHANGED <<deltaVars, pairVars, cleanVars, noteVars>>

SpecOverride == Init /\ [][NextOverride]_vars

\* Queries and control requests whose values lie below and above the ranges
BelowRange ==
    [NoFields EXCEPT !.has = {"x", "y", "w", "h", "width", "quality", "fps"},
                     !.x = -20, !.y = -5, !.w = 0, !.h = -3,
                     !.width = 10, !.quality = 5, !.fps = 1]

AboveRange ==
    [NoFields EXCEPT !.has = {"x", "y", "w", "h", "width", "quality", "fps"},
                     !.x = 150, !.y = 200, !.w = 300, !.h = 101,
                     !.width = 3000, !.quality = 99, !.fps = 500]

ClampQueries ==
    {NoFields, BelowRange, AboveRange,
     [BelowRange EXCEPT !.has = {"y", "h", "width"}]}

ClampPayloads ==
    {BelowRange, AboveRange,
     [AboveRange EXCEPT !.has = {"y"}],
     [BelowRange EXCEPT !.has = {"h", "fps"}],
     [AboveRange EXCEPT !.has = {"width", "quality"}]}

\* Streams of one watch on camera.a, opened one over the other, and control
\* requests, with values outside the ranges
NextClamp ==
    \/ (\E t \in StreamTasks, q \in ClampQueries :
            StreamOpen(t, "w1", <<"camera", "a">>, q))
        /\ UNCHANGED <<deltaVars, pairVars, cleanVars, noteVars>>
    \/ (\E t \in StreamTasks : Prepared(t))
        /\ UNCHANGED <<deltaVars, pairVars, cleanVars, noteVars>>
    \/ (\E t \in StreamTasks : StreamCancel(t))
        /\ UNCHANGED <<deltaVars, pairVars, cleanVars, noteVars>>
    \/ (\E payload \in ClampPayloads : ViewportPost(payload))
        /\ UNCHANGED <<deltaVars, pairVars, cleanVars, noteVars>>

SpecClamp == Init /\ [][NextClamp]_vars

\* ------------------------------------------------------------------------
\* Part 5: push notifications (notifications.py, __init__.py, apns_client.py)
\* ------------------------------------------------------------------------

\* NotificationRegisterView.post
RegisterPost(payload) ==
    LET r == register_post(tokens, payload)
    IN  /\ tokens' = r.tokens
        /\ save_pending' = (save_pending \/ r.saved)
        /\ noteLast' = [NoNote EXCEPT
                !.kind = "register", !.status = r.status,
                !.watch_id = payload.watch_id,
                !.device_token = payload.device_token,
                !.environment = Get(payload, "environment", "production"),
                !.previous = IF r.status = 200
                             THEN get_entry(tokens, payload.watch_id)
                             ELSE <<>>,
                !.saved = r.saved,
                !.reg = IF r.status = 200
                        THEN Reg(payload.device_token,
                                 Get(payload, "environment", "production"))
                        ELSE <<>>]
        /\ UNCHANGED <<on_disk, sends>>

\* WatchUpdatesView.post of a request that has a device_token key: the
\* registration (lines 1042-1054), then handle_poll up to its first return
\* or await
PollWithToken(p, watch_id, since, config_hash, raw_entities, raw_timeout, force_delta, states, body) ==
    /\ Poll(p, watch_id, since, config_hash, raw_entities, raw_timeout,
            force_delta, states)
    /\ LET r == piggyback_register(tokens, watch_id, body)
       IN  /\ tokens' = r.tokens
           /\ save_pending' = (save_pending \/ r.saved)
           /\ noteLast' = [NoNote EXCEPT
                    !.kind = "poll", !.watch_id = watch_id,
                    !.device_token = body.device_token,
                    !.environment = Get(body, "apns_environment", "production"),
                    !.previous = get_entry(tokens, watch_id),
                    !.saved = r.saved,
                    !.reg = IF has_device_token(body)
                            THEN Reg(body.device_token, apns_env(body))
                            ELSE <<>>]
    /\ UNCHANGED <<on_disk, sends>>

\* The delayed save of the Store runs: it writes what _serialize returns
SaveFires ==
    /\ save_pending
    /\ on_disk' = serialize(tokens)
    /\ save_pending' = FALSE
    /\ noteLast' = [NoNote EXCEPT !.kind = "save"]
    /\ UNCHANGED <<tokens, sends>>

\* call.data.get("target") of a call without a target
NoTarget == ""

\* send_push for item i, up to the await of its first _send_once
begin_push(send, i) ==
    [send EXCEPT !.pc = "first", !.i = i, !.reason = "",
                 !.attempts = <<send.targets[i].entry.environment>>]

\* _handle_send_notification up to its first await: the targets are
\* resolved (lines 207-217) and send_push starts for the first of them.
\* The APNs client exists.
SendBegin(t, target) ==
    /\ sends[t].pc = "idle"
    /\ LET targets ==
            IF target # NoTarget
            THEN IF get_entry(tokens, target) = <<>> THEN <<>>
                 ELSE <<Item(target, get_entry(tokens, target)[1])>>
            ELSE tokens
       IN  /\ sends' = IF targets = <<>> THEN sends
                       ELSE [sends EXCEPT ![t] =
                             begin_push([IdleSend EXCEPT !.targets = targets], 1)]
           /\ noteLast' = [NoNote EXCEPT
                    !.kind = "send", !.task = t, !.watch_id = target,
                    !.n = Len(targets),
                    !.done = (targets = <<>>), !.raised = (targets = <<>>)]
    /\ UNCHANGED <<tokens, save_pending, on_disk>>

\* The body of the loop after send_push returned (success, reason,
\* used_env) for the item the loop is at (lines 231-248)
after_push(toks, send, success, reason, used_env) ==
    LET it == send.targets[send.i]
        unchanged == [tokens |-> toks, saved |-> FALSE]
        r == IF success
             THEN IF used_env # it.entry.environment
                  THEN register(toks, it.watch_id, it.entry.device_token,
                                it.entry.platform, used_env)
                  ELSE unchanged
             ELSE IF is_dead_token(reason) THEN remove(toks, it.watch_id)
                  ELSE unchanged
    IN  [tokens |-> r.tokens, saved |-> r.saved,
         failures |-> IF success THEN send.failures
                      ELSE Append(send.failures, <<it.watch_id, reason>>)]

\* send_push returns: the body of the loop runs, then either send_push
\* starts for the next item or the call ends (lines 250-256: with an error
\* when every target failed)
PushReturned(t, success, reason, used_env) ==
    LET send == sends[t]
        it == send.targets[send.i]
        a == after_push(tokens, send, success, reason, used_env)
        last_one == send.i = Len(send.targets)
    IN  /\ tokens' = a.tokens
        /\ save_pending' = (save_pending \/ a.saved)
        /\ sends' = [sends EXCEPT ![t] =
                IF last_one THEN IdleSend
                ELSE begin_push([send EXCEPT
                                    !.failures = a.failures,
                                    !.attempted = @ \cup {it.watch_id}],
                                send.i + 1)]
        /\ noteLast' = [NoNote EXCEPT
                !.kind = "result", !.task = t, !.watch_id = it.watch_id,
                !.device_token = it.entry.device_token,
                !.environment = it.entry.environment,
                !.previous = get_entry(tokens, it.watch_id),
                !.saved = a.saved, !.success = success, !.reason = reason,
                !.used_env = used_env, !.attempts = send.attempts,
                !.i = send.i, !.n = Len(send.targets),
                !.done = last_one,
                !.raised = last_one /\ Len(a.failures) = Len(send.targets),
                !.reg = IF success /\ used_env # it.entry.environment
                        THEN Reg(it.entry.device_token, used_env)
                        ELSE <<>>]
        /\ UNCHANGED on_disk

\* _send_once returns.  outcome: "ok", or the reason the gateway rejected
\* the push with, or "connection_error" when the send raised
AttemptReturns(t, outcome) ==
    /\ sends[t].pc \in {"first", "second"}
    /\ LET send == sends[t]
           environment == send.targets[send.i].entry.environment
       IN  IF send.pc = "first"
           THEN IF outcome = "ok"
                THEN PushReturned(t, TRUE, "", environment)
                ELSE IF tries_other_environment(outcome)
                THEN /\ sends' = [sends EXCEPT
                            ![t].pc = "second",
                            ![t].reason = outcome,
                            ![t].attempts =
                                Append(@, alt_environment(environment))]
                     /\ noteLast' = [NoNote EXCEPT
                            !.kind = "attempt", !.task = t,
                            !.reason = outcome,
                            !.environment = environment]
                     /\ UNCHANGED <<tokens, save_pending, on_disk>>
                ELSE PushReturned(t, FALSE, outcome, environment)
           ELSE IF outcome = "ok"
                THEN PushReturned(t, TRUE, "", alt_environment(environment))
                ELSE PushReturned(t, FALSE, send.reason, environment)

\* Requests the slices draw from
NoKeys ==
    [has |-> {}, watch_id |-> "", device_token |-> "", platform |-> "",
     environment |-> "", apns_environment |-> ""]

Registration(watch_id, device_token) ==
    [NoKeys EXCEPT !.has = {"watch_id", "device_token"},
                   !.watch_id = watch_id, !.device_token = device_token]

WithEnvironment(payload, environment) ==
    [payload EXCEPT !.has = @ \cup {"environment"},
                    !.environment = environment]

WithPlatform(payload, platform) ==
    [payload EXCEPT !.has = @ \cup {"platform"}, !.platform = platform]

RegisterPayloads ==
    {Registration("w1", "tokA"),
     WithEnvironment(Registration("w1", "tokA"), "development"),
     WithEnvironment(Registration("w1", "tokA"), "staging"),
     WithEnvironment(Registration("w1", "tokA"), NotAString),
     WithPlatform(Registration("w1", "tokA"), "ios"),
     Registration("w1", "tokB"),
     Registration("w1", NotAString),
     Registration("", "tokA"),
     [NoKeys EXCEPT !.has = {"device_token"}, !.device_token = "tokA"]}

PollBody(device_token) ==
    [NoKeys EXCEPT !.has = {"device_token"}, !.device_token = device_token]

WithApnsEnvironment(body, environment) ==
    [body EXCEPT !.has = @ \cup {"apns_environment"},
                 !.apns_environment = environment]

PollBodies ==
    {PollBody("tokA"), PollBody(""),
     WithApnsEnvironment(PollBody("tokA"), "development"),
     WithApnsEnvironment(PollBody("tokB"), "staging")}

\* One watch, whose token is registered over the endpoint and on polls,
\* sent to, and saved
NextRegister ==
    \/ (\E payload \in RegisterPayloads : RegisterPost(payload))
        /\ UNCHANGED <<deltaVars, pairVars, cleanVars, camVars>>
    \/ (\E p \in Tasks, body \in PollBodies :
            PollWithToken(p, "w1", NoSince, "h1", NoEntities,
                          MIN_TIMEOUT_SECONDS, FALSE, <<>>, body))
        /\ UNCHANGED <<echoVars, pairVars, cleanVars, camVars>>
    \/ Sent /\ UNCHANGED <<echoVars, pairVars, restVars>>
    \/ SendBegin(1, NoTarget)
        /\ UNCHANGED <<deltaVars, pairVars, cleanVars, camVars>>
    \/ (\E o \in {"ok", "BadDeviceToken", "TooManyRequests"} :
            AttemptReturns(1, o))
        /\ UNCHANGED <<deltaVars, pairVars, cleanVars, camVars>>
    \/ SaveFires /\ UNCHANGED <<deltaVars, pairVars, cleanVars, camVars>>

SpecRegister == Init /\ [][NextRegister]_vars

SendPayloads ==
    {Registration("w1", "tokA"), Registration("w2", "tokA"),
     WithEnvironment(Registration("w2", "tokB"), "development")}

\* Two watches register and are sent to, one and both, with every outcome
\* of a send
NextSend ==
    \/ (\E payload \in SendPayloads : RegisterPost(payload))
        /\ UNCHANGED <<deltaVars, pairVars, cleanVars, camVars>>
    \/ (\E target \in {NoTarget, "w1", "w2"} : SendBegin(1, target))
        /\ UNCHANGED <<deltaVars, pairVars, cleanVars, camVars>>
    \/ (\E o \in {"ok"} \cup Reasons : AttemptReturns(1, o))
        /\ UNCHANGED <<deltaVars, pairVars, cleanVars, camVars>>
    \/ SaveFires /\ UNCHANGED <<deltaVars, pairVars, cleanVars, camVars>>

SpecSend == Init /\ [][NextSend]_vars

\* ------------------------------------------------------------------------
\* Properties
\* ------------------------------------------------------------------------

\* The retained events past the cursor of the suspended poll p that are in the
\* subscription p reads now, oldest first
Pending(p) ==
    SelectSeq(events,
              LAMBDA ev : /\ ev.cursor > polls[p].since_cursor
                          /\ ev.entity_id \in SessionOf(p).entities)

\* The step is the wait loop of p running after a wake-up
Resumes(p) ==
    polls[p].pc = "woken" /\ last'.kind = "resume" /\ last'.task = p

\* C1: for a client that passes the next_cursor of its previous answer as
\* since, the cursors of the events its delta responses delivered, in the
\* order they were delivered, are strictly increasing: no cursor is delivered
\* twice.
C1_EchoDeliversInOrder ==
    \A w \in Watches :
        \A i, j \in 1..Len(delivered[w]) :
            i < j => delivered[w][i] < delivered[w][j]

\* two delta responses reached the echoing client, the later from the wait loop
C1_Witness ==
    /\ Len(delivered["w1"]) >= 2
    /\ last.path = "wake"

\* C2: the events of a delta response, from the immediate collect or from the
\* wait loop, all have an entity_id that is in the subscription the session
\* holds when they are collected.
C2_OnlySubscribedEvents ==
    [][/\ last'.path = "immediate" =>
            \A i \in 1..Len(last'.events) :
                last'.events[i].entity_id \in sessions'[last'.watch_id].entities
       /\ last'.path = "wake" =>
            \A i \in 1..Len(last'.events) :
                last'.events[i].entity_id \in SessionOf(last'.task).entities
      ]_vars

\* a wait-loop response that passed over an older retained event of an entity
\* the session does not subscribe to
C2_Witness ==
    /\ last.path = "wake"
    /\ last.events # <<>>
    /\ \E i \in 1..Len(events) :
        /\ events[i].cursor < last.events[1].cursor
        /\ events[i].entity_id # last.events[1].entity_id

\* C3, as stated: every poll whose since is greater than the current cursor,
\* or less than the oldest retained cursor minus 1, is answered 410 with
\* resync_required and next_cursor = the current cursor.
C3_EveryStaleSinceGets410 ==
    (/\ last.kind = "dispatch"
     /\ StrToInt(last.since).ok
     /\ LET v == StrToInt(last.since).value
        IN  \/ v > cursor
            \/ events # <<>> /\ v < events[1].cursor - 1)
    => /\ last.status = 410
       /\ last.resync_required
       /\ last.next_cursor = IntToStr(cursor)

\* C3, amended: on a session that is synced once the poll's entities and
\* config_hash are applied, a poll whose since, read as an integer with a
\* negative value taken as 0, is greater than the current cursor or less than
\* the oldest retained cursor minus 1 is answered 410 with resync_required and
\* next_cursor = the current cursor.
C3_StaleSinceOnSyncedSessionGets410 ==
    (/\ last.kind = "dispatch"
     /\ sessions[last.watch_id].entities_synced
     /\ StrToInt(last.since).ok
     /\ LET v == Max(StrToInt(last.since).value, 0)
        IN  \/ v > cursor
            \/ events # <<>> /\ v < events[1].cursor - 1)
    => /\ last.status = 410
       /\ last.resync_required
       /\ last.next_cursor = IntToStr(cursor)
       /\ last.events = <<>>

\* a poll behind the ring (its since is below the oldest retained cursor - 1)
\* answered 410
C3_Witness ==
    /\ last.kind = "dispatch"
    /\ last.status = 410
    /\ StrToInt(last.since).ok
    /\ events # <<>>
    /\ Max(StrToInt(last.since).value, 0) < events[1].cursor - 1

C5_WaitingPollReturns ==
    /\ \A p \in Tasks : Suspended(p) ~> (polls[p].pc = "idle")
    /\ [][\A p \in Tasks :
            /\ (Resumes(p) /\ Pending(p) = <<>> /\ polls[p].remaining > 0) =>
                    /\ last'.status = 0
                    /\ polls'[p].pc = "waiting"
                    /\ polls'[p].remaining = polls[p].remaining
            /\ (Resumes(p) /\ Pending(p) = <<>> /\ polls[p].remaining <= 0) =>
                    last'.status = 204 /\ ~last'.body
            /\ (Suspended(p) /\ last'.kind = "resume" /\ last'.task = p
                    /\ last'.status = 204) =>
                    /\ polls[p].remaining <= 0
                    /\ ~last'.body
                    /\ polls'[p].pc = "idle"
         ]_vars

\* the wait loop ran after a wake-up, found nothing for the subscription and
\* the deadline reached: 204
C5_Witness ==
    /\ last.path = "deadline"
    /\ last.status = 204
    /\ nIngest >= 1

\* C6: a poll with since absent or empty on a session that is synced is
\* answered 200 at once, with one row for every subscribed entity hass.states
\* knows and no other row, each row with the state hass.states holds, and
\* next_cursor = the current cursor.
C6_SnapshotOfExistingEntities ==
    (/\ last.kind = "dispatch"
     /\ last.since \in {NoSince, <<>>}
     /\ sessions[last.watch_id].entities_synced)
    => LET existing ==
               sessions[last.watch_id].entities \cap DOMAIN last.states
       IN  /\ last.status = 200
           /\ polls[last.task].pc = "idle"
           /\ Len(last.events) = Cardinality(existing)
           /\ \A i \in 1..Len(last.events) :
                /\ last.events[i].entity_id \in existing
                /\ last.events[i].state = last.states[last.events[i].entity_id]
           /\ \A e \in existing :
                \E i \in 1..Len(last.events) : last.events[i].entity_id = e
           /\ last.next_cursor = IntToStr(cursor)
           /\ ~last.need_entities
           /\ ~last.resync_required

\* a snapshot of two subscribed entities of which hass.states knows one,
\* after the cursor has moved
C6_Witness ==
    /\ last.path = "snapshot"
    /\ sessions[last.watch_id].entities = {"light.a", "light.b"}
    /\ DOMAIN last.states = {"light.a"}
    /\ Len(last.events) = 1
    /\ cursor >= 1

\* C7: a pairing code is redeemed with success once at most: once a redeem
\* of a code has succeeded the code has no session, and every later redeem of
\* it answers null.
C7_CodeRedeemedAtMostOnce ==
    \A c \in Codes :
        /\ redeemed[c] <= 1
        /\ redeemed[c] = 1 => c \notin DOMAIN pairing_sessions
        /\ (pairLast.kind = "redeem" /\ pairLast.code = c /\ pairLast.ok) =>
                c \notin DOMAIN pairing_sessions

\* a code that was redeemed is redeemed again, and the answer is null
C7_Witness ==
    /\ pairLast.kind = "redeem"
    /\ ~pairLast.ok
    /\ redeemed[pairLast.code] = 1

\* a code with a session that has not expired and a refresh token that exists
Redeemable(c) ==
    /\ c \in DOMAIN pairing_sessions
    /\ pairing_sessions[c].ttl > 0
    /\ pairing_sessions[c].refresh_token_id \in refresh_tokens

\* C8, as stated: no code that was the active code and no longer is can be
\* redeemed, whatever refresh_active calls ran, overlapping ones included.
C8_NoFormerActiveCodeRedeemable ==
    \A c \in was_active : c # active_code => ~Redeemable(c)

\* C9: the event log holds MAX_EVENTS_BUFFER events at most, and after
\* MAX_EVENTS_BUFFER + k ingests its oldest event has cursor k + 1.
C9_RingBound ==
    /\ Len(events) <= MAX_EVENTS_BUFFER
    /\ nIngest >= MAX_EVENTS_BUFFER =>
        /\ events # <<>>
        /\ events[1].cursor = (nIngest - MAX_EVENTS_BUFFER) + 1

\* one event was evicted
C9_Witness ==
    /\ nIngest = MAX_EVENTS_BUFFER + 1
    /\ Len(events) = MAX_EVENTS_BUFFER
    /\ events[1].cursor = 2

\* C10: a poll without entities whose config_hash differs from the hash of
\* the session the table holds keeps that session, stores the hash, empties
\* the subscription, unsyncs the session and is answered 200 with
\* need_entities; a poll without entities never leaves a session synced that
\* was not, and a session becomes synced only by a poll with entities.
C10_HashChangeUnsyncs ==
    [][/\ (/\ last'.kind = "dispatch"
           /\ ~last'.has_entities
           /\ last'.watch_id \in DOMAIN prune_sessions(sessions)
           /\ sessions[last'.watch_id].config_hash # last'.config_hash)
          => /\ sessions'[last'.watch_id] =
                    [config_hash |-> last'.config_hash, entities |-> {},
                     entities_synced |-> FALSE, idle |-> 0]
             /\ \A p \in Tasks :
                    (Suspended(p) /\ polls[p].watch_id = last'.watch_id) =>
                        polls'[p] = polls[p]
             /\ last'.status = 200
             /\ last'.need_entities
             /\ last'.events = <<>>
       /\ (/\ last'.kind = "dispatch"
           /\ ~last'.has_entities
           /\ ~(/\ last'.watch_id \in DOMAIN prune_sessions(sessions)
                /\ sessions[last'.watch_id].entities_synced))
          => /\ ~sessions'[last'.watch_id].entities_synced
             /\ last'.need_entities
       /\ \A w \in Watches :
            (/\ w \in DOMAIN sessions'
             /\ sessions'[w].entities_synced
             /\ ~(w \in DOMAIN sessions /\ sessions[w].entities_synced))
            => /\ last'.kind = "dispatch"
               /\ last'.watch_id = w
               /\ last'.has_entities
      ]_vars

\* a poll without entities and with another config_hash unsynced the session
\* that a poll of the same client, still waiting, had synced
C10_Witness ==
    /\ last.kind = "dispatch"
    /\ ~last.has_entities
    /\ last.need_entities
    /\ nPolls = 2
    /\ ~sessions[last.watch_id].entities_synced
    /\ \E p \in Tasks :
        /\ polls[p].pc = "waiting"
        /\ polls[p].watch_id = last.watch_id
        /\ polls[p].session = <<>>

\* C11: a poll on a session that is not synced is answered at once, without
\* waiting, 200 with no events, need_entities, no resync_required and
\* next_cursor = the current cursor, whatever its since is (absent, empty,
\* not a number, ahead of the cursor, behind the ring).
C11_UnsyncedAnsweredNeedEntities ==
    (/\ last.kind = "dispatch"
     /\ ~sessions[last.watch_id].entities_synced)
    => /\ last.status = 200
       /\ polls[last.task].pc = "idle"
       /\ last.body
       /\ last.events = <<>>
       /\ last.need_entities
       /\ ~last.resync_required
       /\ last.next_cursor = IntToStr(cursor)

\* a poll without a since on an unsynced session, after the cursor has moved
C11_Witness ==
    /\ last.kind = "dispatch"
    /\ ~sessions[last.watch_id].entities_synced
    /\ last.since = NoSince
    /\ last.need_entities
    /\ cursor >= 1

\* C17: a poll with force_delta on a synced session with a since that is a
\* number and is not stale is answered 200 at once and never waits: with the
\* matching events when there are some, with no events otherwise, and with
\* the detailed summary either way.
C17_ForceDeltaNeverWaits ==
    (/\ last.kind = "dispatch"
     /\ last.force_delta
     /\ sessions[last.watch_id].entities_synced
     /\ StrToInt(last.since).ok
     /\ LET v == Max(StrToInt(last.since).value, 0)
        IN  /\ v <= cursor
            /\ events # <<>> => v >= events[1].cursor - 1)
    => LET v == Max(StrToInt(last.since).value, 0)
           matching == SelectSeq(events,
                LAMBDA ev : /\ ev.cursor > v
                            /\ ev.entity_id \in sessions[last.watch_id].entities)
       IN  /\ last.status = 200
           /\ polls[last.task].pc = "idle"
           /\ last.body
           /\ last.include_details
           /\ ~last.need_entities
           /\ ~last.resync_required
           /\ last.events =
                SubSeq(matching, 1, Min(Len(matching), MAX_EVENTS_PER_RESPONSE))

\* a force_delta poll that found no event for its subscription, with an event
\* of another entity past its since in the ring, answered 200 with no events
C17_Witness ==
    /\ last.kind = "dispatch"
    /\ last.force_delta
    /\ last.path = "force"
    /\ last.status = 200
    /\ last.events = <<>>
    /\ events # <<>>
    /\ events[Len(events)].cursor > StrToInt(last.since).value

\* C16: when a poll is cancelled during its wait, the session of its
\* watch_id is gone from the session table, the poll has ended and no
\* response was produced.
C16_CancelDropsSession ==
    last.kind = "cancel"
    => /\ last.watch_id \notin DOMAIN sessions
       /\ polls[last.task].pc = "idle"
       /\ last.status = 0
       /\ ~last.body

\* a poll was cancelled while another poll of the same watch_id still waits
C16_Witness ==
    /\ last.kind = "cancel"
    /\ \E q \in Tasks : Suspended(q) /\ polls[q].watch_id = last.watch_id

\* C13: a shutdown leaves the pairing table empty and no active code, and
\* the refresh token of every session that was in the table is gone from
\* the AuthService.
C13_ShutdownRevokesEverySession ==
    [][pairLast'.kind = "shutdown"
       => /\ pairing_sessions' = <<>>
          /\ active_code' = NoCode
          /\ \A c \in DOMAIN pairing_sessions :
                pairing_sessions[c].refresh_token_id \notin refresh_tokens']_vars

\* a shutdown removed the refresh tokens of two outstanding sessions
C13_Witness ==
    /\ pairLast.kind = "shutdown"
    /\ Cardinality(pairLast.revoked) = 2
    /\ pairing_sessions = <<>>

\* C15: a create or a redeem that finds a session whose expiry has been
\* reached drops the session and removes its refresh token; a redeem of that
\* code answers null; if the code was the active code there is no active
\* code after the step.
C15_ExpiredCodePruned ==
    [][pairLast'.kind \in {"create", "redeem"}
       => \A c \in DOMAIN pairing_sessions :
            pairing_sessions[c].ttl <= 0
            => /\ c \notin DOMAIN pairing_sessions'
               /\ pairing_sessions[c].refresh_token_id \notin refresh_tokens'
               /\ (pairLast'.kind = "redeem" /\ pairLast'.code = c)
                    => ~pairLast'.ok
               /\ active_code = c => active_code' = NoCode]_vars

\* an expired code that was the active code and whose token was there is
\* redeemed: the answer is null, the token is gone, no code is active
C15_Witness ==
    /\ pairLast.kind = "redeem"
    /\ ~pairLast.ok
    /\ pairLast.code \in was_active
    /\ pairLast.revoked = {TokenFor(pairLast.code)}
    /\ redeemed[pairLast.code] = 0
    /\ active_code = NoCode

\* the code was stored in the table by a create that has ended
Issued(c) ==
    /\ c <= nCodes
    /\ \A t \in CreateTasks :
            ~(creates[t].pc = "creating" /\ creates[t].code = c)

\* the code was issued and has left the table (redeemed, expired, revoked or
\* superseded)
Ended(c) == Issued(c) /\ c \notin DOMAIN pairing_sessions

\* C12: a code that has left the table never comes back to it (no transition
\* after a terminal state, never redeemable again); a code is redeemed once
\* at most and then has no session; and no step of the pairing coordinator
\* (prune in create or redeem, refresh_active, redeem, shutdown) removes the
\* refresh token of a code that was redeemed.
C12_CodeLifecycle ==
    [][\A c \in Codes :
        /\ Ended(c) => c \notin DOMAIN pairing_sessions'
        /\ Ended(c) => redeemed'[c] = redeemed[c]
        /\ redeemed'[c] >= 1 =>
            /\ redeemed'[c] = 1
            /\ c \notin DOMAIN pairing_sessions'
            /\ TokenFor(c) \notin pairLast'.revoked]_vars

\* a code that was the active code has been redeemed, another code is the
\* active code now, and the redeemed code's refresh token is still there
C12_Witness ==
    /\ \E c \in Codes :
        /\ redeemed[c] = 1
        /\ c \in was_active
        /\ active_code \notin {c, NoCode}
        /\ TokenFor(c) \in refresh_tokens
        /\ Ended(c)

\* C14: the startup cleanup removes a refresh token if and only if the token
\* has the pairing client id, a client name that starts with a pairing
\* prefix, an id outside the pairing coordinator's tracked set, and was never
\* used; every token that was used is still there afterwards, and so is every
\* other token the cleanup did not remove.
C14_CleanupRemovesOrphansOnly ==
    cleanup_task.pc = "done"
    => LET found == cleanup_task.found
       IN  /\ \A id \in DOMAIN found :
                id \in cleanup_task.revoked
                <=> /\ found[id].client_id = PAIRING_CLIENT_ID
                    /\ \E k \in 1..Len(found[id].client_name) :
                          SubSeq(found[id].client_name, 1, k)
                              \in {QRPairingPrefix, PairingPrefix}
                    /\ id \notin {pairing_sessions[c].refresh_token_id :
                                     c \in DOMAIN pairing_sessions}
                    /\ found[id].last_used_at = NeverUsed
           /\ \A id \in DOMAIN found :
                found[id].last_used_at # NeverUsed => id \in DOMAIN auth_tokens
           /\ auth_tokens =
                [id \in DOMAIN found \ cleanup_task.revoked |-> found[id]]

\* the cleanup found two tokens with the pairing client id and a pairing
\* name outside the tracked set, one used and one never used, and removed
\* the one never used
C14_Witness ==
    /\ cleanup_task.pc = "done"
    /\ Cardinality(cleanup_task.revoked) = 1
    /\ Cardinality(DOMAIN cleanup_task.found) = 2
    /\ pairing_sessions = <<>>
    /\ \A id \in DOMAIN cleanup_task.found :
        /\ cleanup_task.found[id].client_id = PAIRING_CLIENT_ID
        /\ startswith(cleanup_task.found[id].client_name, PairingPrefix)
    /\ \E id \in DOMAIN auth_tokens : auth_tokens[id].last_used_at = UsedOnce

\* the session the stream task t reads
StreamSessionOf(t) == session_objs[streams[t].session]

\* C18, as stated: every frame the stream writes is made with the values the
\* session has when the frame is written, so a control request takes effect
\* by the next frame written after it.
C18_NextFrameCarriesUpdate ==
    camLast.kind = "frame"
    => LET frame == camLast.frame[1]
           session == StreamSessionOf(camLast.task)
       IN  /\ frame.viewport = session.viewport
           /\ frame.width = session.width
           /\ frame.quality = session.quality

\* C18, amended: a control request changes the session of the running
\* stream and leaves the stream as it is (same coroutine, same place, same
\* session object, same table); every frame of an iteration that started
\* after the request is made with the updated values: a frame is made with
\* the values the session has when it is written unless the session was
\* changed after the frame's iteration had read it.
C18_UpdateTakesEffectNextIteration ==
    [][/\ camLast'.kind = "post"
            => /\ stream_sessions' = stream_sessions
               /\ nOpens' = nOpens
               /\ \A t \in StreamTasks :
                    /\ streams'[t].pc = streams[t].pc
                    /\ streams'[t].session = streams[t].session
       /\ (camLast'.kind = "frame" /\ ~camLast'.updated)
            => LET frame == camLast'.frame[1]
                   session == StreamSessionOf(camLast'.task)
               IN  /\ frame.viewport = session.viewport
                   /\ frame.width = session.width
                   /\ frame.quality = session.quality
                   /\ frame.fetch_entity =
                        IF session.source_entity_id # NoSource
                        THEN session.source_entity_id
                        ELSE streams[camLast'.task].entity_id]_vars

\* the only stream ever opened writes a frame with the viewport x = 0.5 and
\* the source camera.b, which only control requests set
C18_Witness ==
    /\ camLast.kind = "frame"
    /\ ~camLast.updated
    /\ nOpens = 1
    /\ camLast.frame[1].viewport.x = 50
    /\ camLast.frame[1].fetch_entity = <<"camera", "b">>

\* C19, as stated: an iteration fetches from the override when one is set;
\* an override is reverted only after SOURCE_ERROR_LIMIT failures in a row
\* of fetches from that override, with no frame written in between; and an
\* override with that many failures in a row does not stay set after the
\* failing iteration.
C19_RevertAfterFiveFailuresOfOverride ==
    /\ camLast.kind = "begin" =>
        LET s == streams[camLast.task]
        IN  s.fetch_entity =
                IF StreamSessionOf(camLast.task).source_entity_id # NoSource
                THEN StreamSessionOf(camLast.task).source_entity_id
                ELSE s.entity_id
    /\ camLast.reverted # NoSource => camLast.of_run >= SOURCE_ERROR_LIMIT
    /\ camLast.kind = "error" =>
        /\ streams[camLast.task].consecutive_source_errors < SOURCE_ERROR_LIMIT
            \/ StreamSessionOf(camLast.task).source_entity_id = NoSource
        /\ \A e \in DOMAIN streams[camLast.task].fail_run :
            streams[camLast.task].fail_run[e] >= SOURCE_ERROR_LIMIT
            => StreamSessionOf(camLast.task).source_entity_id # e

\* the request has string ids and a source_entity_id that is absent, null or
\* a camera entity that exists
WellFormed(payload) ==
    /\ IsStr(payload.watch_id)
    /\ payload.entity_id # NotAnId
    /\ \/ "source_entity_id" \notin payload.has
       \/ payload.source_entity_id = NoSource
       \/ /\ is_camera_id(payload.source_entity_id)
          /\ payload.source_entity_id \in CameraStates

C21_EndedStreamLeavesTable ==
    [][\A t \in StreamTasks :
        (streams[t].pc # "idle" /\ streams'[t].pc = "idle")
        => <<streams[t].watch_id, streams[t].entity_id>>
                \notin DOMAIN stream_sessions']_vars

\* C22: in every reachable state every stream session has its width in
\* [MIN_WIDTH, MAX_WIDTH], its quality in [MIN_QUALITY, MAX_QUALITY], its
\* fps in [MIN_FPS, MAX_FPS] (so fps > 0 and 1/fps is defined), and a
\* viewport with x, y in [0, 1] and w, h in [0.01, 1] (in hundredths:
\* 0..100 and 1..100), whatever the stream opens and control requests were.
C22_SessionWithinRanges ==
    \A id \in DOMAIN session_objs :
        LET session == session_objs[id]
        IN  /\ session.width \in MIN_WIDTH..MAX_WIDTH
            /\ session.quality \in MIN_QUALITY..MAX_QUALITY
            /\ session.fps \in MIN_FPS..MAX_FPS
            /\ session.fps > 0
            /\ session.viewport.x \in 0..100
            /\ session.viewport.y \in 0..100
            /\ session.viewport.w \in 1..100
            /\ session.viewport.h \in 1..100

\* C22 witness: a control request with every value below its range was
\* accepted, and the session holds the lower ends of the ranges
C22_Witness ==
    /\ camLast.kind = "post"
    /\ camLast.status = 200
    /\ camLast.payload = <<BelowRange>>
    /\ \E k \in DOMAIN stream_sessions :
        LET session == session_objs[stream_sessions[k]]
        IN  /\ session.width = MIN_WIDTH
            /\ session.quality = MIN_QUALITY
            /\ session.fps = MIN_FPS
            /\ session.viewport = ViewportState(0, 0, 1, 1)

\* C23: a call of register with the device token and the environment that
\* the store already holds for the watch is a no-op: the store is as it
\* was and no save is scheduled (nor is anything written).  A step that
\* writes noteLast is a step of the notification part.
C23_ReRegisterIsNoOp ==
    [][(/\ noteLast' # noteLast
        /\ noteLast'.reg # <<>>
        /\ get_entry(tokens, noteLast'.watch_id) # <<>>
        /\ get_entry(tokens, noteLast'.watch_id)[1].device_token
                = noteLast'.reg[1].device_token
        /\ get_entry(tokens, noteLast'.watch_id)[1].environment
                = noteLast'.reg[1].environment)
       => /\ tokens' = tokens
          /\ save_pending' = save_pending
          /\ on_disk' = on_disk
          /\ ~noteLast'.saved]_vars

\* C23 witness: the endpoint registered again the token and environment
\* that the store held, after the save of the first registration had run
C23_Witness ==
    /\ noteLast.kind = "register"
    /\ noteLast.reg # <<>>
    /\ noteLast.previous # <<>>
    /\ noteLast.previous[1].device_token = noteLast.reg[1].device_token
    /\ noteLast.previous[1].environment = noteLast.reg[1].environment
    /\ ~save_pending
    /\ on_disk = serialize(tokens)

\* C24: when send_push has failed for a target of a notification, the
\* target's entry is dropped from the store if the reason is BadDeviceToken,
\* Unregistered or DeviceTokenNotForTopic, and the store is left as it was
\* for any other reason; after a failure the push of the next target is
\* started, and when the call ends every target has been attempted.
C24_DeadTokensDroppedBatchContinues ==
    [][(noteLast' # noteLast /\ noteLast'.kind = "result")
       => LET w == noteLast'.watch_id
              t == noteLast'.task
              dead == noteLast'.reason \in {"BadDeviceToken", "Unregistered",
                                            "DeviceTokenNotForTopic"}
          IN  /\ (~noteLast'.success /\ dead)
                    => /\ get_entry(tokens', w) = <<>>
                       /\ tokens' = SelectSeq(tokens,
                                        LAMBDA it : it.watch_id # w)
              /\ (~noteLast'.success /\ ~dead) => tokens' = tokens
              /\ (~noteLast'.success /\ ~noteLast'.done)
                    => /\ sends'[t].pc = "first"
                       /\ sends'[t].i = sends[t].i + 1
              /\ noteLast'.done
                    => sends[t].attempted \cup {w} =
                        {sends[t].targets[k].watch_id :
                            k \in DOMAIN sends[t].targets}]_vars

\* C24 witness: a notification to two watches has ended; the push to the
\* first failed, its token was dropped, and the push to the second failed
\* with a reason that leaves its token in the store
C24_Witness ==
    /\ noteLast.kind = "result"
    /\ noteLast.done
    /\ noteLast.raised
    /\ noteLast.n = 2
    /\ noteLast.reason = "TooManyRequests"
    /\ Len(tokens) = 1
    /\ get_entry(tokens, noteLast.watch_id) = noteLast.previous
    /\ noteLast.previous # <<>>

\* C25: every entry of the push-token store has an environment that is
\* "development" or "production", whichever path registered it (a poll,
\* the register endpoint, the correction after a send).
C25_EnvironmentIsDevOrProd ==
    \A i \in DOMAIN tokens : tokens[i].entry.environment \in Environments

\* C26: a delta response with events holds the retained events whose
\* cursor is greater than the since of the poll and whose entity is in the
\* subscription, in strictly increasing cursor order, at most
\* MAX_EVENTS_PER_RESPONSE of them, those with the lowest cursors; and its
\* next_cursor is the cursor of the last event it holds.
C26_DeltaResponseContents ==
    [][(last' # last /\ last'.path \in {"immediate", "wake"}
            /\ last'.events # <<>>)
       => LET since == IF last'.kind = "dispatch"
                       THEN parse_since(last'.since, cursor).cursor
                       ELSE polls[last'.task].since_cursor
              entities == IF last'.kind = "dispatch"
                          THEN sessions'[last'.watch_id].entities
                          ELSE SessionOf(last'.task).entities
              all == SelectSeq(events',
                        LAMBDA ev : /\ ev.cursor > since
                                    /\ ev.entity_id \in entities)
              evs == last'.events
          IN  /\ evs = SubSeq(all, 1, Min(Len(all), MAX_EVENTS_PER_RESPONSE))
              /\ \A i, j \in 1..Len(evs) :
                    i < j => evs[i].cursor < evs[j].cursor
              /\ Len(evs) <= MAX_EVENTS_PER_RESPONSE
              /\ last'.status = 200
              /\ last'.next_cursor = IntToStr(evs[Len(evs)].cursor)]_vars

\* C26 witness: a delta response that is full, with a later matching event
\* retained that it does not hold
C26_Witness ==
    /\ last.path \in {"immediate", "wake"}
    /\ Len(last.events) = MAX_EVENTS_PER_RESPONSE
    /\ \E i \in 1..Len(events) :
        /\ events[i].cursor > last.events[Len(last.events)].cursor
        /\ events[i].entity_id \in sessions[last.watch_id].entities
    /\ last.next_cursor = IntToStr(last.events[Len(last.events)].cursor)

\* C27: cursors are contiguous from 1: in every reachable state the cursor
\* counter is the number of state changes logged, the ring holds
\* consecutive cursors that end at the cursor counter (and is empty only
\* when the counter is 0); and a state_changed notification whose new_state
\* is null changes neither the cursor, nor the ring, nor the generation.
C27_CursorsContiguous ==
    /\ [](/\ cursor = nIngest
          /\ events = <<>> <=> cursor = 0
          /\ events # <<>> => events[Len(events)].cursor = cursor
          /\ \A i \in 1..(Len(events) - 1) :
                events[i + 1].cursor = events[i].cursor + 1)
    /\ [][last'.kind = "removed"
            => /\ cursor' = cursor
               /\ events' = events
               /\ generation' = generation]_vars

\* C27 witness: a notification with a null new_state arrived when the ring
\* was full and had evicted its first event
C27_Witness ==
    /\ last.kind = "removed"
    /\ Len(events) = MAX_EVENTS_BUFFER
    /\ events[1].cursor > 1
    /\ events[Len(events)].cursor = cursor

\* C28: when the wait loop of a poll runs after a wake-up and its
\* re-collect finds no event of the subscription, so that the poll waits
\* again, the since the poll carries from then on is the cursor of the most
\* recent event in the log.
C28_SilentWakeAdvancesSince ==
    [][\A p \in Tasks :
        (Resumes(p) /\ polls'[p].pc = "waiting")
        => polls'[p].since_cursor = cursor']_vars

\* C29: a delta response skips no matching event: when a poll with cursor
\* since is answered 200 with events and next_cursor n, every event logged
\* with a cursor in (since, n] and an entity of the subscription is in the
\* response, also when the ring evicted events while the poll waited.
\* Cursors are contiguous, so each cursor in (since, n] is the cursor of one
\* event logged: it is in the response, or it is retained and its entity is
\* not in the subscription.  (Under SpecEvict every event logged is of
\* light.a, which the subscription holds: an event that is no longer
\* retained was a matching one.)
C29_NoMatchingEventSkipped ==
    [][(last' # last /\ last'.path \in {"immediate", "wake"}
            /\ last'.status = 200 /\ last'.events # <<>>)
       => LET since == IF last'.kind = "dispatch"
                       THEN parse_since(last'.since, cursor).cursor
                       ELSE polls[last'.task].since_cursor
              entities == IF last'.kind = "dispatch"
                          THEN sessions'[last'.watch_id].entities
                          ELSE SessionOf(last'.task).entities
              n == StrToInt(last'.next_cursor).value
          IN  \A c \in (since + 1)..n :
                \/ \E i \in 1..Len(last'.events) : last'.events[i].cursor = c
                \/ \E j \in 1..Len(events') :
                        /\ events'[j].cursor = c
                        /\ events'[j].entity_id \notin entities]_vars

\* C30: handle_poll answers with 200, 204 or 410 only (status 0: the poll
\* is suspended or was cancelled, and nothing is answered).  It answers 410
\* exactly when, at the entry of the poll, the session is synced, since is
\* not empty, and since is not a number or, with a negative value taken as
\* 0, is stale (beyond the cursor, or below the oldest retained cursor
\* minus 1).  resync_required is true on 410 and only there; need_entities
\* is true only with status 200 and no events.
C30_StatusesAndResync ==
    /\ last.status \in {0, 200, 204, 410}
    /\ last.resync_required <=> last.status = 410
    /\ last.need_entities => last.status = 200 /\ last.events = <<>>
    /\ last.status = 410 => last.kind = "dispatch"
    /\ last.kind = "dispatch" =>
        LET n == StrToInt(last.since)
            c == IF n.value < 0 THEN 0 ELSE n.value
            stale == \/ c > cursor
                     \/ events # <<>> /\ c < events[1].cursor - 1
        IN  last.status = 410 <=>
                /\ sessions[last.watch_id].entities_synced
                /\ last.since \notin {NoSince, <<>>}
                /\ ~n.ok \/ stale

\* C30 witness: a poll with since "-1" on a synced session was answered 410
\* because cursor 0 is behind the ring
C30_Witness ==
    /\ last.kind = "dispatch"
    /\ last.status = 410
    /\ last.resync_required
    /\ last.since = <<"-", "1">>
    /\ events # <<>>
    /\ events[1].cursor = 2

\* C31: the fields of a session are changed by the poll handler of its own
\* client only, and the polls of one client are serialized: while a poll of
\* a client is in the wait state and holds the session the table has for that
\* client, no step changes that session's subscription, config_hash or sync
\* flag.
C31_PollsSerializedPerClient ==
    [][\A w \in DOMAIN sessions \cap DOMAIN sessions' :
        LET fields(s) == <<s.entities, s.config_hash, s.entities_synced>>
            changed == fields(sessions'[w]) # fields(sessions[w])
        IN  /\ changed => last'.kind = "dispatch" /\ last'.watch_id = w
            /\ (\E q \in Tasks : /\ Suspended(q)
                                 /\ polls[q].watch_id = w
                                 /\ polls[q].session = <<>>)
               => ~changed]_vars

\* C32: while a poll is in the wait state, the session object it reads its
\* subscription from is the one the session table holds under its client's
\* id, whatever other polls of the client, cancellations and forced resyncs
\* come in between.
C32_WaitingPollSessionInTable ==
    \A p \in Tasks :
        Suspended(p) =>
            /\ polls[p].watch_id \in DOMAIN sessions
            /\ polls[p].session = <<>>

\* C33: the sweep that handle_poll runs before it looks up the session
\* removes exactly the sessions idle for more than SESSION_TTL: the sessions
\* of the other clients stay if and only if they are not expired, and an
\* expired session of the polling client is replaced by a new one, which is
\* unsynced unless the poll carries entities.  The timeout of a poll is
\* clamped below SESSION_TTL, so the session a waiting poll holds is never
\* expired when a sweep runs.
C33_SweepRemovesExpiredOnly ==
    [][(last'.kind = "dispatch" /\ last' # last) =>
        LET w == last'.watch_id
            expired == {x \in DOMAIN sessions : sessions[x].idle > SESSION_TTL}
        IN  /\ last'.pruned = expired
            /\ DOMAIN sessions' = (DOMAIN sessions \ expired) \cup {w}
            /\ \A x \in DOMAIN sessions' \ {w} : sessions'[x] = sessions[x]
            /\ (w \in expired /\ ~last'.has_entities) =>
                    /\ ~sessions'[w].entities_synced
                    /\ last'.need_entities
            /\ \A q \in Tasks :
                    Suspended(q) /\ polls[q].session = <<>>
                    => polls[q].watch_id \notin expired]_vars

\* C33 witness: a poll swept the expired session of w1 while another poll,
\* a poll of w2, was in the wait state and kept its session
C33_Witness ==
    /\ last.kind = "dispatch"
    /\ last.pruned = {"w1"}
    /\ \E q \in Tasks :
            /\ q # last.task
            /\ polls[q].pc = "waiting"
            /\ polls[q].watch_id = "w2"
            /\ polls[q].session = <<>>
    /\ "w2" \in DOMAIN sessions

\* C34: once the force_resync service has run, a client that had a session
\* receives no incremental delta (a 200 with events collected from its
\* since, from a dispatch or from the wait loop) before it has been answered
\* with need_entities, a snapshot or a 410.
C34_NoDeltaBeforeRefresh ==
    (/\ last.status = 200
     /\ last.path \in {"immediate", "wake"}
     /\ last.events # <<>>)
    => last.watch_id \notin resync_due

\* C35: while the frame loop of a stream is running, the stream table holds,
\* under the stream's (watch_id, entity_id), the session object the loop
\* reads, and no control request for that key is answered 404 for want of
\* a session (a request that names a source camera can be answered 404 for
\* that camera), also when two streams of one key overlap and one of them
\* ends first.
C35_LiveStreamSessionInTable ==
    \A t \in StreamTasks :
        LET key == <<streams[t].watch_id, streams[t].entity_id>>
        IN  streams[t].pc \in {"fetching", "processing", "writing", "sleeping"}
            => /\ key \in DOMAIN stream_sessions
               /\ stream_sessions[key] = streams[t].session
               /\ ~(/\ camLast.kind = "post"
                    /\ camLast.status = 404
                    /\ "source_entity_id" \notin camLast.payload[1].has
                    /\ <<camLast.payload[1].watch_id,
                         camLast.payload[1].entity_id>> = key)

\* C36: a fetch, a frame processing or a write that fails with an error
\* other than a connection reset or abort does not end the stream and does
\* not touch the stream table: the iteration ends in the sleep, and the
\* iteration after the sleep starts with the viewport, width, quality and
\* source the session has then.  A stream handler ends only on a connection
\* reset or abort and on cancellation.
C36_FrameErrorsNeverEndStream ==
    [][\A t \in StreamTasks :
        /\ (camLast'.kind = "error" /\ camLast'.task = t) =>
                /\ InIteration(streams[t])
                /\ streams'[t].pc = "sleeping"
                /\ streams'[t].session = streams[t].session
                /\ stream_sessions' = stream_sessions
        /\ (streams[t].pc = "sleeping" /\ streams'[t].pc # "sleeping") =>
                \/ camLast'.kind = "end" /\ streams'[t].pc = "idle"
                \/ LET session == session_objs'[streams'[t].session]
                       s == streams'[t]
                   IN  /\ camLast'.kind = "begin"
                       /\ s.pc = "fetching"
                       /\ s.current_viewport = session.viewport
                       /\ s.current_width = session.width
                       /\ s.current_quality = session.quality
                       /\ s.fetch_entity =
                            IF session.source_entity_id # NoSource
                            THEN session.source_entity_id ELSE s.entity_id
        /\ (streams[t].pc # "idle" /\ streams'[t].pc = "idle") =>
                camLast'.kind = "end"]_vars

\* C36 witness: after two failures in a row of fetches from the override
\* camera.b the stream is still there, its session is in the table, and the
\* next iteration has started with the override
C36_Witness ==
    /\ camLast.kind = "begin"
    /\ streams[1].pc = "fetching"
    /\ streams[1].consecutive_source_errors = 2
    /\ streams[1].fetch_entity = <<"camera", "b">>
    /\ <<"w1", <<"camera", "a">>>> \in DOMAIN stream_sessions

\* C37: the loop of send_notification removes or rewrites only the token it
\* sent to: when send_push returns for a watch whose stored device token is
\* no longer the one the push went to (the client registered another token
\* while the push was in flight), the stored entry of that watch is left as
\* it is, whatever the result.
C37_SendTouchesOnlyTokenSentTo ==
    [][noteLast'.kind = "result" =>
        LET stored == get_entry(tokens, noteLast'.watch_id)
        IN  (stored # <<>> /\ stored[1].device_token # noteLast'.device_token)
            => get_entry(tokens', noteLast'.watch_id) = stored]_vars

\* C38: once the pairing coordinator has been shut down its table stays
\* empty and no pairing refresh token comes into being.  Stated for the step
\* that follows the shutdown: a new call takes two steps to store a session,
\* so the step is the resumption of a create or refresh_active call that was
\* suspended on the AuthService when the shutdown ran, or it stores nothing.
C38_ShutdownIsFinal ==
    [][pairLast.kind = "shutdown"
       => /\ pairing_sessions' = <<>>
          /\ active_code' = NoCode
          /\ refresh_tokens' \subseteq refresh_tokens]_vars

\* C39: in every reachable state a session that is not synced has an empty
\* subscription.  A poll that handle_poll gets with an entities list, an
\* empty one included, leaves the session of its client synced, with the
\* string entries of that list as the subscription; a poll without an
\* entities list that finds no session of its client (none, or an expired
\* one that the sweep dropped) leaves a session that is not synced.
C39_UnsyncedHasNoSubscription ==
    /\ [](\A w \in DOMAIN sessions :
            ~sessions[w].entities_synced => sessions[w].entities = {})
    /\ [][(last'.kind = "dispatch" /\ last' # last) =>
            LET w == last'.watch_id
                l == last'.entities
            IN  IF l # NoEntities
                THEN /\ sessions'[w].entities_synced
                     /\ sessions'[w].entities =
                            {l[i] : i \in {j \in 1..Len(l) : IsStr(l[j])}}
                ELSE (w \notin DOMAIN sessions \/ w \in last'.pruned)
                     => ~sessions'[w].entities_synced]_vars

\* C39 witness: a poll with an empty entities list left its session synced
\* with an empty subscription, and was answered with a snapshot of nothing
C39_Witness ==
    /\ last.kind = "dispatch"
    /\ last.entities = <<>>
    /\ last.path = "snapshot"
    /\ sessions[last.watch_id].entities_synced
    /\ sessions[last.watch_id].entities = {}

\* C40: send_push makes one or two attempts for a target.  The first is on
\* the environment of the target's entry.  A second attempt follows only a
\* first that failed with BadDeviceToken, and goes to the other environment:
\* another environment over another gateway client.  A success of the first
\* attempt is returned with the entry's environment; a success of the second
\* with the environment of the second, and the caller registers the token
\* under it, so that the store then holds it for the watch; every failure is
\* returned with the reason of the first attempt and the entry's environment.
C40_AtMostTwoAttempts ==
    [][(sends' # sends /\ noteLast'.kind \in {"attempt", "result"}) =>
        LET n == noteLast'
            send == sends[n.task]
        IN  IF n.kind = "attempt"
            THEN /\ send.pc = "first"
                 /\ n.reason = "BadDeviceToken"
                 /\ sends'[n.task].pc = "second"
                 /\ sends'[n.task].reason = n.reason
                 /\ Len(sends'[n.task].attempts) = 2
                 /\ sends'[n.task].attempts[1] = n.environment
                 /\ sends'[n.task].attempts[2] # n.environment
                 /\ get_client(sends'[n.task].attempts[2])
                        # get_client(n.environment)
            ELSE /\ Len(n.attempts) \in {1, 2}
                 /\ n.attempts[1] = n.environment
                 /\ Len(n.attempts) = 2 <=> send.pc = "second"
                 /\ Len(n.attempts) = 2 => send.reason = "BadDeviceToken"
                 /\ IF n.success
                    THEN IF Len(n.attempts) = 1
                         THEN n.used_env = n.environment /\ n.reg = <<>>
                         ELSE /\ n.used_env = n.attempts[2]
                              /\ n.used_env # n.environment
                              /\ n.reg = Reg(n.device_token, n.used_env)
                              /\ get_entry(tokens', n.watch_id) # <<>>
                              /\ get_entry(tokens', n.watch_id)[1].device_token
                                    = n.device_token
                              /\ get_entry(tokens', n.watch_id)[1].environment
                                    = n.used_env
                    ELSE /\ n.used_env = n.environment
                         /\ n.reason \in Reasons
                         /\ Len(n.attempts) = 1 => n.reason # "BadDeviceToken"
                         /\ Len(n.attempts) = 2 => n.reason = send.reason]_vars

====
